---- MODULE Spec2Model ----
(***************************************************************************)
(* Model of garyapi: the concurrent cache store (src/src/cache.rs), the    *)
(* router (src/src/routing.rs), the request dispatcher                     *)
(* (src/src/handlers.rs) and the server start-up (src/src/server.rs).      *)
(*                                                                         *)
(* Strings are sequences of one-character strings, so that prefix tests,   *)
(* slicing and separator checks are computed as the code computes them.    *)
(* A byte blob (bytes::Bytes) is a record [len, id]: its length in bytes   *)
(* and an identifier of its content.                                       *)
(*                                                                         *)
(* The specifications of this module share its definitions:                *)
(*   SpecTypes   the functions of types.rs applied to bounded strings;     *)
(*   SpecRoute   Route::from_path applied to bounded path strings;         *)
(*   SpecLoader  the two loaders applied to bounded directories and files; *)
(*   SpecCache   callers of the Cache trait running concurrently, every    *)
(*               operation split at its lock acquisition and release;      *)
(*   Spec        start-up (initialize_cache), then concurrent requests     *)
(*               dispatched against the cache, over a changing filesystem. *)
(***************************************************************************)
EXTENDS Integers, Sequences, FiniteSets, TLC

VARIABLES
    \* ---- FileCache (cache.rs:50-56) ----
    gary_files,     \* Vec<FileName> of ResourceType::Gary
    goober_files,   \* Vec<FileName> of ResourceType::Goober
    quotes,         \* Vec<Bytes>
    jokes,          \* Vec<Bytes>
    image_cache,    \* AHashMap<String, Bytes>, a function on the set of its keys
    locks,          \* state of the five RwLocks: [writer, readers]
    \* ---- SpecRoute ----
    rpath,          \* the path given to Route::from_path
    rroute,         \* the Route it returned, NoRoute before the call
    rprev,          \* history: the Route the previous call returned for the same path
    \* ---- SpecCache ----
    clients,        \* per caller: the cache operation in progress
    written,        \* history: per list, the argument of the last update that took
                    \* effect; per key, the last blob stored and the last get result
    calls,          \* number of cache operations started
    \* ---- Spec (server) ----
    disk,           \* the filesystem: per directory and bare name, an entry
    phase,          \* position of start-up: from_config .. serve
    loaded,         \* results of the four loads joined by initialize_cache
    preload,        \* per directory: position of preload_images
    tasks,          \* per request task: position in dispatch
    last,           \* the request completed by the latest step, and its response
    \* ---- SpecLoader ----
    lsource,        \* what the filesystem gives a load: a directory or a text file
    lresult,        \* the Vec the load returned, none before the call
    \* ---- SpecTypes ----
    tcall,          \* a call of a function of types.rs: its name and arguments
    tresult,        \* what the call returned, none before the call
    \* ---- SpecMetrics ----
    metrics,        \* ServerMetrics: request_count and total_response_time
    mtasks,         \* per request task: position in the service_fn closure
    mreader,        \* a caller of average_response_time: position and result
    mdone           \* history: the increment_requests calls that have returned

cacheVars == <<gary_files, goober_files, quotes, jokes, image_cache, locks>>
routeVars == <<rpath, rroute, rprev>>
clientVars == <<clients, written, calls>>
serverVars == <<disk, phase, loaded, preload, tasks, last>>
loaderVars == <<lsource, lresult>>
typesVars == <<tcall, tresult>>
metricsVars == <<metrics, mtasks, mreader, mdone>>
vars == <<cacheVars, routeVars, clientVars, serverVars, loaderVars, typesVars, metricsVars>>

----------------------------------------------------------------------------
(* Bounds *)

MaxRem == 2          \* longest remainder appended to a path prefix (SpecRoute)
MaxCalls == 3        \* cache operations started in one behaviour (SpecCache)

----------------------------------------------------------------------------
(* Strings *)

None == "None"

StartsWith_but_last(s, prefix) ==
    /\ Len(s) >= Len(prefix) - 1
    /\ SubSeq(s, 1, Len(prefix) - 1) = SubSeq(prefix, 1, Len(prefix) - 1)

StartsWith(s, prefix) ==
    /\ Len(s) >= Len(prefix)
    /\ SubSeq(s, 1, Len(prefix)) = prefix

Contains(s, c) == \E i \in 1..Len(s) : s[i] = c

\* &p[n..]: the string without its first n characters
SliceFrom(s, n) == SubSeq(s, n + 1, Len(s))

SeqRange(s) == {s[i] : i \in 1..Len(s)}

RECURSIVE SeqsUpTo(_, _)
SeqsUpTo(A, n) ==
    IF n = 0 THEN {<<>>}
    ELSE LET shorter == SeqsUpTo(A, n - 1)
         IN  shorter \cup {Append(s, a) : s \in shorter, a \in A}

----------------------------------------------------------------------------
(* types.rs *)

Gary == "Gary"
Goober == "Goober"
ResourceType == {Gary, Goober}

\* FileName::new: Ok(name) or Err
FileName_new_no_backslash(name) ==
    IF Contains(name, "/") THEN [ok |-> FALSE, name |-> <<>>]
    ELSE IF name = <<>> THEN [ok |-> FALSE, name |-> <<>>]
    ELSE [ok |-> TRUE, name |-> name]

FileName_new_accepts_empty(name) ==
    IF Contains(name, "/") \/ Contains(name, "\\") THEN [ok |-> FALSE, name |-> <<>>]
    ELSE [ok |-> TRUE, name |-> name]

FileName_new(name) ==
    IF Contains(name, "/") \/ Contains(name, "\\") THEN [ok |-> FALSE, name |-> <<>>]
    ELSE IF name = <<>> THEN [ok |-> FALSE, name |-> <<>>]
    ELSE [ok |-> TRUE, name |-> name]

\* FileName::new_unchecked
FileName_new_unchecked(name) == name

\* ResourceType::default_image
default_image(resource) ==
    IF resource = Gary
    THEN <<"G", "a", "r", "y", "7", "6", ".", "j", "p", "g">>
    ELSE <<"g", "o", "o", "b", "e", "r", "8", ".", "j", "p", "g">>

\* impl From<FileName> for CacheKey
CacheKey_from(filename) == filename

----------------------------------------------------------------------------
(* routing.rs *)

NoName == <<>>
Route(tag, filename) == [tag |-> tag, filename |-> filename]
NoRoute == Route("NoRoute", NoName)

P_root == <<"/">>
P_gary == <<"/", "g", "a", "r", "y">>
P_goober == <<"/", "g", "o", "o", "b", "e", "r">>
P_gary_count == P_gary \o <<"/", "c", "o", "u", "n", "t">>
P_goober_count == P_goober \o <<"/", "c", "o", "u", "n", "t">>
P_quote == <<"/", "q", "u", "o", "t", "e">>
P_joke == <<"/", "j", "o", "k", "e">>
P_gary_image == P_gary \o <<"/", "i", "m", "a", "g", "e", "/">>
P_goober_image == P_goober \o <<"/", "i", "m", "a", "g", "e", "/">>
P_Gary == <<"/", "G", "a", "r", "y", "/">>
P_Goober == <<"/", "G", "o", "o", "b", "e", "r", "/">>

\* Route::from_path
from_path_image_validated(p) ==
    IF p = P_root THEN Route("Docs", NoName)
    ELSE IF p = P_gary_count THEN Route("GaryCount", NoName)
    ELSE IF p = P_goober_count THEN Route("GooberCount", NoName)
    ELSE IF p = P_gary THEN Route("GaryUrl", NoName)
    ELSE IF p = P_goober THEN Route("GooberUrl", NoName)
    ELSE IF p = P_quote THEN Route("Quote", NoName)
    ELSE IF p = P_joke THEN Route("Joke", NoName)
    ELSE IF StartsWith(p, P_gary_image) THEN
        IF FileName_new(SliceFrom(p, 12)).ok THEN Route("GaryImage", NoName)
        ELSE Route("NotFound", NoName)
    ELSE IF StartsWith(p, P_goober_image) THEN
        IF FileName_new(SliceFrom(p, 14)).ok THEN Route("GooberImage", NoName)
        ELSE Route("NotFound", NoName)
    ELSE IF StartsWith(p, P_Gary) THEN
        LET f == FileName_new(SliceFrom(p, 6))
        IN  IF f.ok THEN Route("GaryFile", f.name) ELSE Route("NotFound", NoName)
    ELSE IF StartsWith(p, P_Goober) THEN
        LET f == FileName_new(SliceFrom(p, 8))
        IN  IF f.ok THEN Route("GooberFile", f.name) ELSE Route("NotFound", NoName)
    ELSE Route("NotFound", NoName)

from_path(p) ==
    IF p = P_root THEN Route("Docs", NoName)
    ELSE IF p = P_gary_count THEN Route("GaryCount", NoName)
    ELSE IF p = P_goober_count THEN Route("GooberCount", NoName)
    ELSE IF p = P_gary THEN Route("GaryUrl", NoName)
    ELSE IF p = P_goober THEN Route("GooberUrl", NoName)
    ELSE IF p = P_quote THEN Route("Quote", NoName)
    ELSE IF p = P_joke THEN Route("Joke", NoName)
    ELSE IF StartsWith(p, P_gary_image) THEN Route("GaryImage", NoName)
    ELSE IF StartsWith(p, P_goober_image) THEN Route("GooberImage", NoName)
    ELSE IF StartsWith(p, P_Gary) THEN
        LET filename == SliceFrom(p, 6)
        IN  IF filename = <<>> THEN Route("NotFound", NoName)
            ELSE LET f == FileName_new(filename)
                 IN  IF f.ok THEN Route("GaryFile", f.name)
                     ELSE Route("NotFound", NoName)
    ELSE IF StartsWith(p, P_Goober) THEN
        LET filename == SliceFrom(p, 8)
        IN  IF filename = <<>> THEN Route("NotFound", NoName)
            ELSE LET f == FileName_new(filename)
                 IN  IF f.ok THEN Route("GooberFile", f.name)
                     ELSE Route("NotFound", NoName)
    ELSE Route("NotFound", NoName)

\* Route::is_url_route with the random image of Gary counted as a URL route
is_url_route_with_random_image(route) == route.tag \in {"GaryUrl", "GooberUrl", "GaryImage"}

\* Route::is_image_route, Route::is_url_route, Route::is_text_route
is_image_route(route) == route.tag \in {"GaryImage", "GooberImage", "GaryFile", "GooberFile"}

is_url_route(route) == route.tag \in {"GaryUrl", "GooberUrl"}

is_text_route(route) == route.tag \in {"Quote", "Joke"}

----------------------------------------------------------------------------
(* cache.rs: FileCache *)

ListNames == {"gary_files", "goober_files", "quotes", "jokes"}
LockNames == ListNames \cup {"image_cache"}

\* FileCache::get_files
get_files_gary(resource) == "gary_files"

get_files(resource) ==
    IF resource = Gary THEN "gary_files" ELSE "goober_files"

\* the Vec behind a list's RwLock
ListOf(l) ==
    CASE l = "gary_files" -> gary_files
      [] l = "goober_files" -> goober_files
      [] l = "quotes" -> quotes
      [] l = "jokes" -> jokes

\* *lock.write() = v : the whole Vec is replaced, the other lists are untouched
SetList_gary_clears_goober(l, v) ==
    /\ gary_files' = IF l = "gary_files" THEN v ELSE gary_files
    /\ goober_files' = IF l = "goober_files" THEN v
                       ELSE IF l = "gary_files" THEN <<>> ELSE goober_files
    /\ quotes' = IF l = "quotes" THEN v ELSE quotes
    /\ jokes' = IF l = "jokes" THEN v ELSE jokes

SetList(l, v) ==
    /\ gary_files' = IF l = "gary_files" THEN v ELSE gary_files
    /\ goober_files' = IF l = "goober_files" THEN v ELSE goober_files
    /\ quotes' = IF l = "quotes" THEN v ELSE quotes
    /\ jokes' = IF l = "jokes" THEN v ELSE jokes

\* FileCache::random_index: the values fastrand::usize(..len) can return
random_index_inclusive(len) == 0..len

random_index(len) == 0..(len - 1)

\* RwLock::read() returns once no writer holds the lock
CanRead_unlocked(l) == TRUE

CanRead_any_writer(l) == \A k \in LockNames : locks[k].writer = None

CanRead(l) == locks[l].writer = None

\* RwLock::write() returns once nobody holds the lock
CanWrite(l) == locks[l].writer = None /\ locks[l].readers = {}

FreeLocks == [l \in LockNames |-> [writer |-> None, readers |-> {}]]

\* Option<T>: a sequence of at most one element
Some(v) == <<v>>
NoneOpt == <<>>

\* FileCache::get_image on the map: a clone of the stored Bytes, or None
get_image_always_miss(map, key) == NoneOpt

get_image_any_key(map, key) ==
    IF DOMAIN map = {} THEN NoneOpt ELSE <<map[CHOOSE k \in DOMAIN map : TRUE]>>

get_image(map, key) == IF key \in DOMAIN map THEN Some(map[key]) ELSE NoneOpt

\* FileCache::store_image on the map: insert or overwrite
store_image_only_key(map, key, data) == [k \in {key} |-> data]

store_image_evicting(map, key, data) ==
    IF key \in DOMAIN map \/ DOMAIN map = {}
    THEN [k \in DOMAIN map \cup {key} |-> IF k = key THEN data ELSE map[k]]
    ELSE [k \in {key} |-> data]

store_image_if_absent(map, key, data) ==
    [k \in DOMAIN map \cup {key} |-> IF k \in DOMAIN map THEN map[k] ELSE data]

store_image(map, key, data) ==
    [k \in DOMAIN map \cup {key} |-> IF k = key THEN data ELSE map[k]]

EmptyMap == [k \in {} |-> None]

----------------------------------------------------------------------------
(* SpecCache: concurrent callers of the Cache trait *)

Clients == {"c1", "c2"}

NameA == <<"a">>
NameB == <<"b">>
FileLists == {<<>>, <<NameA>>, <<NameB, NameA>>}

TextX == <<"x">>
TextY == <<"y">>
TextLists == {<<>>, <<TextX>>, <<TextY, TextX>>}

Threshold == 1024 * 1024
SmallSize == 10240

Blob(len, id) == [len |-> len, id |-> id]
Blob1 == Blob(SmallSize, 1)
Blob2 == Blob(SmallSize, 2)
BlobBig1 == Blob(Threshold, 3)
BlobBig2 == Blob(Threshold, 4)

CacheKeys == {NameA, NameB}
StoreBlobs == {Blob1, Blob2}

ReadOps == {"get_random_file", "get_random_quote", "get_random_joke",
            "file_count", "quote_count", "joke_count", "get_image"}
RandomOps == {"get_random_file", "get_random_quote", "get_random_joke"}
CountOps == {"file_count", "quote_count", "joke_count"}
UpdateOps == {"update_files", "update_quotes", "update_jokes"}

\* History of the image cache, kept apart from store_image and get_image:
\* written["image_cache"] maps a key to the blob of the last insert that
\* took the write lock, written["image_gets"] maps a key to the result of
\* the last get_image since the last insert for that key.
\* written["mirror_gary_files"] and written["mirror_goober_files"] are the
\* file lists of a second cache that receives every call with the two
\* resource kinds exchanged.
HistoryNames ==
    ListNames \cup {"image_cache", "image_gets", "mirror_gary_files", "mirror_goober_files"}

MirrorOf(l) == IF l = "gary_files" THEN "mirror_gary_files" ELSE "mirror_goober_files"

Put(map, key, v) == [k \in DOMAIN map \cup {key} |-> IF k = key THEN v ELSE map[k]]

Drop(map, key) == [k \in DOMAIN map \ {key} |-> map[k]]

Lookup(map, key) == IF key \in DOMAIN map THEN Some(map[key]) ELSE NoneOpt

\* The list a call names: history bookkeeping, independent of get_files
TargetOf(resource) ==
    IF resource = Gary THEN "gary_files" ELSE "goober_files"

\* the lock the same call takes in the second cache, where it is made with
\* the other resource kind; a call without a kind takes the same lock
MirrorLock(target, l) ==
    IF target = "gary_files" THEN get_files(Goober)
    ELSE IF target = "goober_files" THEN get_files(Gary)
    ELSE l

\* the list behind a lock of the second cache
MirrorList(l) == written[MirrorOf(l)]

\* get_random_file in the second cache, with the index the first one drew
MirrorPick(l, index) ==
    IF MirrorList(l) = <<>> THEN NoneOpt
    ELSE IF index < Len(MirrorList(l)) THEN Some(MirrorList(l)[index + 1])
    ELSE Some("panic")

\* stage/op/lock/arg/key/len/index/result/panic are the caller's position and
\* locals; target, seen, snap and ref are history: the list the call names,
\* the values that list held during the call, the value it held when the
\* length was sampled, and the last update argument when the call read it.
\* For get_image and store_image: seen holds the result of the previous
\* get_image of the key since its last insert, snap is the map the call
\* found, and ref is the blob last inserted for the key.
\* mlock and mresult are the lock and the result of the same call in the
\* second cache.
IdleClient ==
    [stage |-> "idle", op |-> None, lock |-> None, arg |-> <<>>, key |-> <<>>,
     len |-> 0, index |-> 0, result |-> NoneOpt, panic |-> FALSE,
     target |-> None, seen |-> {}, snap |-> <<>>, ref |-> <<>>,
     mlock |-> None, mresult |-> NoneOpt]

\* no caller is about to return: a result is observed in the state its
\* operation completes in, before any other step is taken
NoneReturning == \A c \in Clients : clients[c].stage # "done"

\* a caller enters a cache operation; it holds no lock yet
Enter(c, op, target, l, arg, key) ==
    /\ clients[c].stage = "idle"
    /\ NoneReturning
    /\ calls < MaxCalls
    /\ calls' = calls + 1
    /\ clients' = [clients EXCEPT ![c] =
          [IdleClient EXCEPT !.stage = "wait", !.op = op, !.lock = l,
                             !.arg = arg, !.key = key, !.target = target,
                             !.mlock = MirrorLock(target, l),
                             !.seen = IF target \in ListNames
                                      THEN {ListOf(target)} ELSE {}]]
    /\ UNCHANGED <<cacheVars, written>>

CallGetRandomFile(c) ==
    \E resource \in ResourceType :
        Enter(c, "get_random_file", TargetOf(resource), get_files(resource), <<>>, <<>>)

CallGetRandomQuote(c) == Enter(c, "get_random_quote", "quotes", "quotes", <<>>, <<>>)

CallGetRandomJoke(c) == Enter(c, "get_random_joke", "jokes", "jokes", <<>>, <<>>)

CallFileCount(c) ==
    \E resource \in ResourceType :
        Enter(c, "file_count", TargetOf(resource), get_files(resource), <<>>, <<>>)

CallQuoteCount(c) == Enter(c, "quote_count", "quotes", "quotes", <<>>, <<>>)

CallJokeCount(c) == Enter(c, "joke_count", "jokes", "jokes", <<>>, <<>>)

CallUpdateFiles(c) ==
    \E resource \in ResourceType, files \in FileLists :
        Enter(c, "update_files", TargetOf(resource), get_files(resource), files, <<>>)

CallUpdateQuotes(c) ==
    \E v \in TextLists : Enter(c, "update_quotes", "quotes", "quotes", v, <<>>)

CallUpdateJokes(c) ==
    \E v \in TextLists : Enter(c, "update_jokes", "jokes", "jokes", v, <<>>)

CallGetImage(c) ==
    \E key \in CacheKeys : Enter(c, "get_image", "image_cache", "image_cache", <<>>, key)

CallStoreImage(c) ==
    \E key \in CacheKeys, data \in StoreBlobs :
        Enter(c, "store_image", "image_cache", "image_cache", data, key)

\* lock.read()
AcquireRead(c) ==
    LET cl == clients[c] IN
    /\ NoneReturning
    /\ cl.stage = "wait"
    /\ cl.op \in ReadOps
    /\ CanRead(cl.lock)
    /\ locks' = [locks EXCEPT ![cl.lock].readers = @ \cup {c}]
    /\ clients' = [clients EXCEPT ![c].stage = "locked"]
    /\ UNCHANGED <<gary_files, goober_files, quotes, jokes, image_cache, written, calls>>

\* lock.write()
AcquireWrite(c) ==
    LET cl == clients[c] IN
    /\ NoneReturning
    /\ cl.stage = "wait"
    /\ cl.op \notin ReadOps
    /\ CanWrite(cl.lock)
    /\ locks' = [locks EXCEPT ![cl.lock].writer = c]
    /\ clients' = [clients EXCEPT ![c].stage = "locked"]
    /\ UNCHANGED <<gary_files, goober_files, quotes, jokes, image_cache, written, calls>>

\* a read guard that is not dropped when the operation returns
ReleaseRead_leaked(c, l) == UNCHANGED locks

ReleaseRead(c, l) == locks' = [locks EXCEPT ![l].readers = @ \ {c}]
ReleaseWrite(c, l) == locks' = [locks EXCEPT ![l].writer = None]

\* get_random_*: is_empty(), then random_index(len)
PickIndex(c) ==
    LET cl == clients[c]
        v == ListOf(cl.lock)
    IN
    /\ NoneReturning
    /\ cl.stage = "locked"
    /\ cl.op \in RandomOps
    /\ IF v = <<>>
       THEN /\ clients' = [clients EXCEPT ![c].stage = "done", ![c].result = NoneOpt,
                                          ![c].ref = written[cl.target],
                                          ![c].mresult =
                                              IF cl.op = "get_random_file"
                                              THEN MirrorPick(cl.mlock, 0) ELSE NoneOpt]
            /\ ReleaseRead(c, cl.lock)
       ELSE /\ \E i \in random_index(Len(v)) :
                 clients' = [clients EXCEPT ![c].stage = "indexed",
                                            ![c].len = Len(v), ![c].index = i,
                                            ![c].snap = ListOf(cl.target)]
            /\ UNCHANGED locks
    /\ UNCHANGED <<gary_files, goober_files, quotes, jokes, image_cache, written, calls>>

\* get_random_*: Some(v[index].clone()); indexing past the end panics
FetchElement(c) ==
    LET cl == clients[c]
        v == ListOf(cl.lock)
    IN
    /\ NoneReturning
    /\ cl.stage = "indexed"
    /\ IF cl.index < Len(v)
       THEN clients' = [clients EXCEPT ![c].stage = "done",
                                       ![c].result = Some(v[cl.index + 1]),
                                       ![c].ref = written[cl.target],
                                       ![c].mresult =
                                           IF cl.op = "get_random_file"
                                           THEN MirrorPick(cl.mlock, cl.index)
                                           ELSE Some(v[cl.index + 1])]
       ELSE clients' = [clients EXCEPT ![c].stage = "done", ![c].panic = TRUE,
                                       ![c].ref = written[cl.target]]
    /\ ReleaseRead(c, cl.lock)
    /\ UNCHANGED <<gary_files, goober_files, quotes, jokes, image_cache, written, calls>>

\* file_count / quote_count / joke_count: lock.read().len()
ReadCount(c) ==
    LET cl == clients[c] IN
    /\ NoneReturning
    /\ cl.stage = "locked"
    /\ cl.op \in CountOps
    /\ clients' = [clients EXCEPT ![c].stage = "done",
                                  ![c].result = Some(Len(ListOf(cl.lock))),
                                  ![c].ref = written[cl.target],
                                  ![c].mresult =
                                      IF cl.op = "file_count"
                                      THEN Some(Len(MirrorList(cl.mlock)))
                                      ELSE Some(Len(ListOf(cl.lock)))]
    /\ ReleaseRead(c, cl.lock)
    /\ UNCHANGED <<gary_files, goober_files, quotes, jokes, image_cache, written, calls>>

\* update_files / update_quotes / update_jokes: *lock.write() = arg
ReplaceList(c) ==
    LET cl == clients[c] IN
    /\ NoneReturning
    /\ cl.stage = "locked"
    /\ cl.op \in UpdateOps
    /\ SetList(cl.lock, cl.arg)
    /\ written' = [h \in HistoryNames |->
          IF h = cl.target THEN cl.arg
          ELSE IF cl.op = "update_files" /\ h = MirrorOf(cl.mlock) THEN cl.arg
          ELSE written[h]]
    /\ clients' = [d \in Clients |->
          IF d = c THEN [clients[c] EXCEPT !.stage = "done"]
          ELSE IF clients[d].stage \in {"wait", "locked", "indexed"}
                  /\ clients[d].target = cl.target
               THEN [clients[d] EXCEPT !.seen = @ \cup {cl.arg}]
               ELSE clients[d]]
    /\ ReleaseWrite(c, cl.lock)
    /\ UNCHANGED <<image_cache, calls>>

\* get_image: image_cache.read().get(key).cloned()
LookupImage_take(c) ==
    LET cl == clients[c] IN
    /\ NoneReturning
    /\ cl.stage = "locked"
    /\ cl.op = "get_image"
    /\ clients' = [clients EXCEPT ![c].stage = "done",
                                  ![c].result = get_image(image_cache, cl.key),
                                  ![c].ref = IF cl.key \in DOMAIN written["image_cache"]
                                             THEN <<written["image_cache"][cl.key]>>
                                             ELSE <<>>,
                                  ![c].seen = IF cl.key \in DOMAIN written["image_gets"]
                                              THEN {written["image_gets"][cl.key]}
                                              ELSE {},
                                  ![c].snap = image_cache]
    /\ written' = [written EXCEPT !["image_gets"] =
                       [k \in DOMAIN @ \cup {cl.key} |->
                           IF k = cl.key THEN get_image(image_cache, cl.key) ELSE @[k]]]
    /\ image_cache' = [k \in DOMAIN image_cache \ {cl.key} |-> image_cache[k]]
    /\ ReleaseRead(c, cl.lock)
    /\ UNCHANGED <<gary_files, goober_files, quotes, jokes, calls>>

LookupImage(c) ==
    LET cl == clients[c] IN
    /\ NoneReturning
    /\ cl.stage = "locked"
    /\ cl.op = "get_image"
    /\ clients' = [clients EXCEPT ![c].stage = "done",
                                  ![c].result = get_image(image_cache, cl.key),
                                  ![c].ref = Lookup(written["image_cache"], cl.key),
                                  ![c].seen = IF cl.key \in DOMAIN written["image_gets"]
                                              THEN {written["image_gets"][cl.key]}
                                              ELSE {},
                                  ![c].snap = image_cache]
    /\ written' = [written EXCEPT !["image_gets"] =
                       Put(@, cl.key, get_image(image_cache, cl.key))]
    /\ ReleaseRead(c, cl.lock)
    /\ UNCHANGED <<gary_files, goober_files, quotes, jokes, image_cache, calls>>

\* store_image: image_cache.write().insert(key, data)
InsertImage(c) ==
    LET cl == clients[c] IN
    /\ NoneReturning
    /\ cl.stage = "locked"
    /\ cl.op = "store_image"
    /\ image_cache' = store_image(image_cache, cl.key, cl.arg)
    /\ clients' = [clients EXCEPT ![c].stage = "done", ![c].snap = image_cache]
    /\ written' = [written EXCEPT !["image_cache"] = Put(@, cl.key, cl.arg),
                                  !["image_gets"] = Drop(@, cl.key)]
    /\ ReleaseWrite(c, cl.lock)
    /\ UNCHANGED <<gary_files, goober_files, quotes, jokes, calls>>

\* the operation returns to its caller
Return(c) ==
    /\ clients[c].stage = "done"
    /\ clients' = [clients EXCEPT ![c] = IdleClient]
    /\ UNCHANGED <<cacheVars, written, calls>>

----------------------------------------------------------------------------
(* Initial values of the variable groups *)

\* the server-side variables while no server runs
ServerOff ==
    /\ disk = <<>>
    /\ phase = "off"
    /\ loaded = <<>>
    /\ preload = <<>>
    /\ tasks = <<>>
    /\ last = <<>>

\* FileCache::new
CacheNew ==
    /\ gary_files = <<>>
    /\ goober_files = <<>>
    /\ quotes = <<>>
    /\ jokes = <<>>
    /\ image_cache = EmptyMap
    /\ locks = FreeLocks

RouteIdle ==
    /\ rpath = <<>>
    /\ rroute = NoRoute
    /\ rprev = NoRoute

NoSource == [kind |-> "none"]

LoaderIdle ==
    /\ lsource = NoSource
    /\ lresult = NoneOpt

NoCall == [fn |-> "none"]

TypesIdle ==
    /\ tcall = NoCall
    /\ tresult = NoneOpt

MetricTasks == 1..2

\* ServerMetrics::new: every counter is 0
MetricsNew == [request_count |-> 0, total_response_time |-> 0]

NoAverage == [divided |-> FALSE, total |-> 0, count |-> 0]
ReaderIdle == [pc |-> "idle", total_time |-> 0, result |-> NoneOpt]

MetricsIdle ==
    /\ metrics = MetricsNew
    /\ mtasks = [t \in MetricTasks |-> [pc |-> "idle", seen |-> 0]]
    /\ mreader = ReaderIdle
    /\ mdone = 0

ClientsIdle ==
    /\ clients = [c \in Clients |-> IdleClient]
    /\ written = [h \in HistoryNames |-> <<>>]
    /\ calls = 0

InitCache ==
    /\ CacheNew
    /\ ClientsIdle
    /\ RouteIdle
    /\ LoaderIdle
    /\ TypesIdle
    /\ MetricsIdle
    /\ ServerOff

NextCache ==
    \E c \in Clients :
        \/ CallGetRandomFile(c)
        \/ CallGetRandomQuote(c)
        \/ CallGetRandomJoke(c)
        \/ CallFileCount(c)
        \/ CallQuoteCount(c)
        \/ CallJokeCount(c)
        \/ CallUpdateFiles(c)
        \/ CallUpdateQuotes(c)
        \/ CallUpdateJokes(c)
        \/ CallGetImage(c)
        \/ CallStoreImage(c)
        \/ AcquireRead(c)
        \/ AcquireWrite(c)
        \/ PickIndex(c)
        \/ FetchElement(c)
        \/ ReadCount(c)
        \/ ReplaceList(c)
        \/ LookupImage(c)
        \/ InsertImage(c)
        \/ Return(c)

SpecCache ==
    InitCache /\ [][NextCache /\ UNCHANGED <<routeVars, serverVars, loaderVars, typesVars, metricsVars>>]_vars

----------------------------------------------------------------------------
(* SpecRoute: Route::from_path on bounded path strings *)

Alphabet == {"a", ".", "/", "\\"}

PathPrefixes ==
    {<<>>, P_root, P_gary, P_goober, P_gary_count, P_goober_count, P_quote,
     P_joke, P_gary_image, P_goober_image, P_Gary, P_Goober,
     <<"/", "G", "a", "r", "y">>, <<"/", "G", "A", "R", "Y", "/">>,
     P_gary \o <<"/", "i", "m", "a", "g", "e">>,
     P_goober \o <<"/", "i", "m", "a", "g", "e">>,
     <<"/", "n", "o", "n", "s", "e", "n", "s", "e">>}

TestPaths == {pre \o rem : pre \in PathPrefixes, rem \in SeqsUpTo(Alphabet, MaxRem)}

InitRoute ==
    /\ rpath \in TestPaths
    /\ rroute = NoRoute
    /\ rprev = NoRoute
    /\ CacheNew
    /\ ClientsIdle
    /\ ServerOff
    /\ LoaderIdle
    /\ TypesIdle
    /\ MetricsIdle

\* one call of Route::from_path
Parse_once ==
    /\ rroute = NoRoute
    /\ rroute' = IF rprev = NoRoute THEN from_path(rpath) ELSE Route("NotFound", NoName)
    /\ UNCHANGED <<rpath, rprev>>

Parse ==
    /\ rroute = NoRoute
    /\ rroute' = from_path(rpath)
    /\ UNCHANGED <<rpath, rprev>>

\* the caller moves on to another path
NextPath ==
    /\ rroute # NoRoute
    /\ rpath' \in TestPaths
    /\ rroute' = NoRoute
    /\ rprev' = NoRoute

\* the caller asks for the same path again
SamePath ==
    /\ rroute # NoRoute
    /\ rprev' = rroute
    /\ rroute' = NoRoute
    /\ UNCHANGED rpath

NextRoute == Parse \/ NextPath \/ SamePath

SpecRoute ==
    InitRoute
        /\ [][NextRoute /\ UNCHANGED <<cacheVars, clientVars, serverVars, loaderVars, typesVars, metricsVars>>]_vars

----------------------------------------------------------------------------
(* The filesystem collaborator *)

\* config.rs: Config::default
gary_dir == <<"g", "a", "r", "y", "_", "i", "m", "a", "g", "e", "s">>
goober_dir == <<"g", "o", "o", "b", "e", "r", "_", "i", "m", "a", "g", "e", "s">>
gary_base_url == <<"http://localhost:8080/Gary">>
goober_base_url == <<"http://localhost:8080/Goober">>

\* serve_image_file and initialize_cache: the directory configured for a kind
DirOf_gary(resource) == gary_dir

DirOf(resource) == IF resource = Gary THEN gary_dir ELSE goober_dir

\* a join that adds no separator after a path that ends with one
join_no_double_separator(dir, filename) ==
    IF dir # <<>> /\ dir[Len(dir)] = "/" THEN dir \o filename
    ELSE dir \o <<"/">> \o filename

\* DirectoryPath::join
join(dir, filename) == dir \o <<"/">> \o filename

NoBlob == Blob(0, 0)

\* a directory entry: absent, a regular file with its content, or an entry
\* that is not a regular file
Absent == [kind |-> "absent", blob |-> NoBlob]
File(b) == [kind |-> "file", blob |-> b]
Other == [kind |-> "other", blob |-> NoBlob]

\* the contents a file of each directory takes: one below the size gate and
\* one of exactly 1 MiB, different in the two directories
DiskBlobs(resource) ==
    IF resource = Gary THEN {Blob1, BlobBig1} ELSE {Blob2, BlobBig2}

Entries(resource) == {Absent, Other} \cup {File(b) : b \in DiskBlobs(resource)}

\* the directory entries the model follows: (directory, bare name)
DiskSlots == {<<Gary, NameA>>, <<Goober, NameA>>}

\* tokio::fs::read(path): Ok(content) or Err; a read of an existing regular
\* file may still fail (permission, I/O error)
Ok(v) == [ok |-> TRUE, val |-> v]
Err == [ok |-> FALSE, val |-> NoBlob]

\* a read that returns only when it succeeds
ReadAnswers_only_success(path) ==
    LET hit == {sl \in DiskSlots : join(DirOf(sl[1]), sl[2]) = path} IN
    IF hit = {} THEN {}
    ELSE LET e == disk[CHOOSE sl \in hit : TRUE] IN
         IF e.kind = "file" THEN {Ok(e.blob)} ELSE {}

ReadAnswers(path) ==
    LET hit == {sl \in DiskSlots : join(DirOf(sl[1]), sl[2]) = path} IN
    IF hit = {} THEN {Err}
    ELSE LET e == disk[CHOOSE sl \in hit : TRUE] IN
         IF e.kind = "file" THEN {Ok(e.blob), Err} ELSE {Err}

\* the regular files a directory listing shows
RegularFiles(resource) ==
    {n \in {sl[2] : sl \in {x \in DiskSlots : x[1] = resource}} :
        disk[<<resource, n>>].kind = "file"}

\* every order in which a set can be enumerated
RECURSIVE Orderings(_)
Orderings(S) ==
    IF S = {} THEN {<<>>}
    ELSE UNION {{<<x>> \o rest : rest \in Orderings(S \ {x})} : x \in S}

----------------------------------------------------------------------------
(* cache.rs: DefaultCacheLoader *)

RECURSIVE Flatten(_)
Flatten(ss) == IF ss = <<>> THEN <<>> ELSE Head(ss) \o Flatten(Tail(ss))

\* characters are one-character strings; Ctl stands for U+0001, an ASCII
\* control character that is none of newline, carriage return and tab
Ctl == "U+0001"

IsAsciiChar(c) == c # "é"

\* serde_json::to_string on a &str: the quoted, escaped literal
SerdeChar(c) ==
    CASE c = "\"" -> <<"\\", "\"">>
      [] c = "\\" -> <<"\\", "\\">>
      [] c = "\n" -> <<"\\", "n">>
      [] c = "\r" -> <<"\\", "r">>
      [] c = "\t" -> <<"\\", "t">>
      [] c = Ctl -> <<"\\", "u", "0", "0", "0", "1">>
      [] OTHER -> <<c>>

serde_to_string(str) ==
    <<"\"">> \o Flatten([i \in 1..Len(str) |-> SerdeChar(str[i])]) \o <<"\"">>

\* str::trim_matches('"'): every leading and every trailing '"' is removed
RECURSIVE TrimStart(_)
TrimStart(str) ==
    IF str # <<>> /\ Head(str) = "\"" THEN TrimStart(Tail(str)) ELSE str

RECURSIVE TrimEnd(_)
TrimEnd(str) ==
    IF str # <<>> /\ str[Len(str)] = "\""
    THEN TrimEnd(SubSeq(str, 1, Len(str) - 1)) ELSE str

trim_matches_quote(str) == TrimEnd(TrimStart(str))

\* DefaultCacheLoader::escape_json_string
escape_json_string(str) ==
    IF \A i \in 1..Len(str) :
          IsAsciiChar(str[i]) /\ str[i] \notin {"\"", "\\", "\n", "\r", "\t"}
    THEN str
    ELSE trim_matches_quote(serde_to_string(str))

\* what reading and parsing a text file can give: a read error, content that
\* is not a JSON array of strings, or an array of strings
TextFiles ==
    {[readable |-> FALSE, json |-> NoneOpt],
     [readable |-> TRUE, json |-> NoneOpt],
     [readable |-> TRUE, json |-> Some(<<TextY, TextX>>)]}

\* DefaultCacheLoader::load_text_content
load_text_content(file) ==
    IF ~file.readable THEN <<>>
    ELSE IF file.json = NoneOpt THEN <<>>
    ELSE [i \in 1..Len(file.json[1]) |-> escape_json_string(file.json[1][i])]

\* an entry as read_dir yields it: its name, whether it is a regular file,
\* and whether entry.file_type() succeeds
DirEntry(name, is_file, typeOk) ==
    [name |-> name, is_file |-> is_file, typeOk |-> typeOk]

\* DefaultCacheLoader::load_file_list: read_dir fails -> empty; otherwise the
\* loop takes the entries next_entry yields before it returns None or an
\* error (yielded of them), skips those whose file_type fails or is not a
\* regular file, and pushes the names of the others in that order
load_file_list_empty_on_any_error(readDirOk, listing, yielded) ==
    IF ~readDirOk \/ yielded < Len(listing)
       \/ \E i \in 1..Len(listing) : ~listing[i].typeOk
    THEN <<>>
    ELSE LET files == SelectSeq(listing, LAMBDA e : e.is_file)
         IN  [i \in 1..Len(files) |-> FileName_new_unchecked(files[i].name)]

load_file_list(readDirOk, listing, yielded) ==
    IF ~readDirOk THEN <<>>
    ELSE LET taken == SubSeq(listing, 1, yielded)
             files == SelectSeq(taken, LAMBDA e : e.typeOk /\ e.is_file)
         IN  [i \in 1..Len(files) |-> FileName_new_unchecked(files[i].name)]

\* the result of a load future as join! hands it over.  History: how is
\* "failed" when the source could not be opened (read_dir or read_to_string
\* failed) or, for a text file, parsed; "partial" when the directory was
\* opened and next_entry or file_type failed on the way; "ok" otherwise
LoadResult(list, how) == <<list, how>>

HowListed(readDirOk, listing, yielded) ==
    IF ~readDirOk THEN "failed"
    ELSE IF yielded < Len(listing) \/ \E i \in 1..Len(listing) : ~listing[i].typeOk
    THEN "partial" ELSE "ok"

HowParsed(file) ==
    IF ~file.readable \/ file.json = NoneOpt THEN "failed" ELSE "ok"

\* the names a directory listing shows, and the listings read_dir can yield
DirNames(resource) ==
    {n \in {sl[2] : sl \in {x \in DiskSlots : x[1] = resource}} :
        disk[<<resource, n>>].kind # "absent"}

Listings(resource) ==
    {[i \in 1..Len(names) |->
         DirEntry(names[i], disk[<<resource, names[i]>>].kind = "file", typeOk[names[i]])] :
        names \in Orderings(DirNames(resource)),
        typeOk \in [DirNames(resource) -> BOOLEAN]}

----------------------------------------------------------------------------
(* SpecLoader: load_file_list and load_text_content on bounded sources *)

MaxStr == 2          \* longest string of a loaded JSON array (SpecLoader)

Chars == {"a", "\"", "\\", "\n", "\r", "\t", Ctl, "é"}

Strings == SeqsUpTo(Chars, MaxStr)

\* the arrays a text file holds: none, one or two strings
Arrays == {<<>>} \cup {<<str>> : str \in Strings} \cup {<<str, TextX>> : str \in Strings}

\* the listings read_dir gives over the names a and b
LoaderNames == {NameA, NameB}

LoaderListings ==
    UNION {{[i \in 1..Len(names) |->
                DirEntry(names[i], is_file[names[i]], typeOk[names[i]])] :
               names \in Orderings(N),
               is_file \in [N -> BOOLEAN],
               typeOk \in [N -> BOOLEAN]} : N \in SUBSET LoaderNames}

DirSources ==
    UNION {{[kind |-> "dir", readDirOk |-> ok, listing |-> listing, yielded |-> y] :
               ok \in BOOLEAN, y \in 0..Len(listing)} : listing \in LoaderListings}

TextSources ==
    {[kind |-> "text", file |-> [readable |-> readable, json |-> json]] :
        readable \in BOOLEAN,
        json \in {NoneOpt} \cup {Some(array) : array \in Arrays}}

LoaderSources == DirSources \cup TextSources

InitLoader ==
    /\ lsource \in LoaderSources
    /\ lresult = NoneOpt
    /\ CacheNew
    /\ ClientsIdle
    /\ RouteIdle
    /\ TypesIdle
    /\ MetricsIdle
    /\ ServerOff

\* one call of load_file_list
CallLoadFileList ==
    /\ lsource.kind = "dir"
    /\ lresult = NoneOpt
    /\ lresult' = Some(load_file_list(lsource.readDirOk, lsource.listing,
                                      lsource.yielded))
    /\ UNCHANGED lsource

\* one call of load_text_content
CallLoadTextContent ==
    /\ lsource.kind = "text"
    /\ lresult = NoneOpt
    /\ lresult' = Some(load_text_content(lsource.file))
    /\ UNCHANGED lsource

\* the loader is given another source
NextSource ==
    /\ lresult # NoneOpt
    /\ lsource' \in LoaderSources
    /\ lresult' = NoneOpt

NextLoader == CallLoadFileList \/ CallLoadTextContent \/ NextSource

SpecLoader ==
    InitLoader
        /\ [][NextLoader /\ UNCHANGED <<cacheVars, routeVars, clientVars, serverVars, typesVars, metricsVars>>]_vars

----------------------------------------------------------------------------
(* SpecTypes: the functions of types.rs on bounded strings *)

\* an extension taken after the first '.' of the name
extension_first_dot(name) ==
    LET dots == {i \in 0..(Len(name) - 1) : name[i + 1] = "."}
        found == IF dots = {} THEN NoneOpt
                 ELSE Some(CHOOSE i \in dots : \A j \in dots : j >= i)
    IN  IF found = NoneOpt THEN NoneOpt
        ELSE LET idx == found[1] IN
             IF idx > 0 /\ idx < Len(name) - 1
             THEN Some(SubSeq(name, idx + 2, Len(name)))
             ELSE NoneOpt

\* FileName::extension: s.rfind('.') gives the 0-based position of the last
\* '.'; the guard idx > 0 && idx < s.len() - 1 is evaluated only for
\* Some(idx), so s.len() - 1 is never computed for the empty name; the
\* result is &s[idx + 1..]
extension(name) ==
    LET dots == {i \in 0..(Len(name) - 1) : name[i + 1] = "."}
        found == IF dots = {} THEN NoneOpt
                 ELSE Some(CHOOSE i \in dots : \A j \in dots : j <= i)
    IN  IF found = NoneOpt THEN NoneOpt
        ELSE LET idx == found[1] IN
             IF idx > 0 /\ idx < Len(name) - 1
             THEN Some(SubSeq(name, idx + 2, Len(name)))
             ELSE NoneOpt

MaxName == 3         \* longest string given to a function of types.rs (SpecTypes)

RawNames == SeqsUpTo(Alphabet, MaxName)

\* the directory paths join is called on: the two configured ones, the empty
\* path and one that ends with a separator; a DirectoryPath is any string
DirPaths == {gary_dir, goober_dir, <<>>, <<"d", "/">>}

TypeCalls ==
    {[fn |-> f, raw |-> raw] :
        f \in {"FileName::new", "FileName::new_unchecked", "FileName::extension"},
        raw \in RawNames}
      \cup {[fn |-> "DirectoryPath::join", raw |-> raw, dir |-> dir] :
                raw \in RawNames, dir \in DirPaths}

InitTypes ==
    /\ tcall \in TypeCalls
    /\ tresult = NoneOpt
    /\ CacheNew
    /\ ClientsIdle
    /\ RouteIdle
    /\ LoaderIdle
    /\ ServerOff
    /\ MetricsIdle

\* one call of FileName::new
CallFileNameNew ==
    /\ tcall.fn = "FileName::new"
    /\ tresult = NoneOpt
    /\ tresult' = Some(FileName_new(tcall.raw))
    /\ UNCHANGED tcall

\* one call of FileName::new_unchecked
CallFileNameNewUnchecked ==
    /\ tcall.fn = "FileName::new_unchecked"
    /\ tresult = NoneOpt
    /\ tresult' = Some(FileName_new_unchecked(tcall.raw))
    /\ UNCHANGED tcall

\* one call of FileName::extension, on a name made by new_unchecked
CallExtension ==
    /\ tcall.fn = "FileName::extension"
    /\ tresult = NoneOpt
    /\ tresult' = Some(extension(FileName_new_unchecked(tcall.raw)))
    /\ UNCHANGED tcall

\* one call of DirectoryPath::join, with a file name made by new_unchecked
CallJoin ==
    /\ tcall.fn = "DirectoryPath::join"
    /\ tresult = NoneOpt
    /\ tresult' = Some(join(tcall.dir, FileName_new_unchecked(tcall.raw)))
    /\ UNCHANGED tcall

\* the caller makes another call
NextCall ==
    /\ tresult # NoneOpt
    /\ tcall' \in TypeCalls
    /\ tresult' = NoneOpt

NextTypes ==
    CallFileNameNew \/ CallFileNameNewUnchecked \/ CallExtension \/ CallJoin \/ NextCall

SpecTypes ==
    InitTypes
        /\ [][NextTypes /\ UNCHANGED <<cacheVars, routeVars, clientVars, serverVars, loaderVars, metricsVars>>]_vars

----------------------------------------------------------------------------
(* SpecMetrics: ServerMetrics under concurrent request tasks.  server.rs     *)

MaxRequests == 3     \* requests served in one behaviour (SpecMetrics)

\* the microseconds a response takes
Durations == {0, 100, 200}

InitMetrics ==
    /\ MetricsIdle
    /\ CacheNew
    /\ ClientsIdle
    /\ RouteIdle
    /\ LoaderIdle
    /\ TypesIdle
    /\ ServerOff

\* an increment made of a load and a later store
IncrementRequests_load_then_store(t) ==
    \/ /\ mtasks[t].pc = "idle"
       /\ mdone + Cardinality({u \in MetricTasks : mtasks[u].pc # "idle"}) < MaxRequests
       /\ mtasks' = [mtasks EXCEPT ![t] = [pc |-> "loaded", seen |-> metrics.request_count]]
       /\ UNCHANGED <<metrics, mreader, mdone>>
    \/ /\ mtasks[t].pc = "loaded"
       /\ metrics' = [metrics EXCEPT !.request_count = mtasks[t].seen + 1]
       /\ mtasks' = [mtasks EXCEPT ![t] = [pc |-> "handling", seen |-> 0]]
       /\ mdone' = mdone + 1
       /\ UNCHANGED mreader

\* the service_fn closure calls increment_requests: one fetch_add(1) on
\* request_count.  started requests are capped by MaxRequests, far below the
\* 2^64 at which the counter would wrap
IncrementRequests(t) ==
    /\ mtasks[t].pc = "idle"
    /\ mdone < MaxRequests
    /\ metrics' = [metrics EXCEPT !.request_count = @ + 1]
    /\ mtasks' = [mtasks EXCEPT ![t].pc = "handling"]
    /\ mdone' = mdone + 1
    /\ UNCHANGED mreader

\* the request has been handled; the closure calls record_response_time:
\* one fetch_add(duration) on total_response_time
RecordResponseTime(t) ==
    /\ mtasks[t].pc = "handling"
    /\ \E duration \in Durations :
          metrics' = [metrics EXCEPT !.total_response_time = @ + duration]
    /\ mtasks' = [mtasks EXCEPT ![t].pc = "idle"]
    /\ UNCHANGED <<mreader, mdone>>

\* average_response_time: load total_response_time, then load request_count,
\* then divide when count > 0 and return 0.0 otherwise
AverageResponseTime ==
    \/ /\ mreader.pc = "idle"
       /\ mreader' = [pc |-> "loaded", total_time |-> metrics.total_response_time,
                      result |-> NoneOpt]
       /\ UNCHANGED <<metrics, mtasks, mdone>>
    \/ /\ mreader.pc = "loaded"
       /\ LET count == metrics.request_count IN
          mreader' = [pc |-> "idle", total_time |-> mreader.total_time,
                      result |-> Some(IF count > 0
                                      THEN [divided |-> TRUE, total |-> mreader.total_time,
                                            count |-> count]
                                      ELSE NoAverage)]
       /\ UNCHANGED <<metrics, mtasks, mdone>>

NextMetrics ==
    \/ \E t \in MetricTasks : IncrementRequests(t)
    \/ \E t \in MetricTasks : RecordResponseTime(t)
    \/ AverageResponseTime

SpecMetrics ==
    InitMetrics
        /\ [][NextMetrics /\ UNCHANGED <<cacheVars, routeVars, clientVars, serverVars, loaderVars, typesVars>>]_vars

----------------------------------------------------------------------------
(* Spec: start-up.  server.rs Server::from_config and Server::serve,        *)
(* cache.rs DefaultCacheLoader::initialize_cache                            *)

Sources == {"gary_dir", "goober_dir", "quotes_file", "jokes_file"}

SourceOf(resource) == IF resource = Gary THEN "gary_dir" ELSE "goober_dir"

\* stage, todo, cur: the position of preload_images in its directory.
\* History: clean is TRUE while no filesystem call of this preload has failed
\* and its directory has not changed since read_dir; stored holds the names
\* this preload has stored.  The history ends when initialize_cache returns.
PreloadAt(stage, todo, cur, clean, stored) ==
    [stage |-> stage, todo |-> todo, cur |-> cur, clean |-> clean, stored |-> stored]

PreloadIdle == PreloadAt("pending", {}, NoName, TRUE, {})

PreloadReturned == PreloadAt("done", {}, NoName, TRUE, {})

\* Server::from_config: C::default(), then initialize_cache is entered and
\* its four load futures are created
FromConfig ==
    /\ phase = "new"
    /\ phase' = "loading"
    /\ UNCHANGED <<cacheVars, disk, loaded, preload, tasks, last>>

\* one of the two load_file_list futures of the first join!
LoadFileList(resource) ==
    /\ phase = "loading"
    /\ loaded[SourceOf(resource)] = NoneOpt
    /\ \E readDirOk \in BOOLEAN, listing \in Listings(resource) :
          \E yielded \in 0..Len(listing) :
              loaded' = [loaded EXCEPT ![SourceOf(resource)] =
                  LoadResult(load_file_list(readDirOk, listing, yielded),
                             HowListed(readDirOk, listing, yielded))]
    /\ UNCHANGED <<cacheVars, disk, phase, preload, tasks, last>>

\* one of the two load_text_content futures of the first join!
LoadTextContent_quotes_first(src) ==
    /\ phase = "loading"
    /\ src \in {"quotes_file", "jokes_file"}
    /\ loaded[src] = NoneOpt
    /\ \E file \in TextFiles :
          loaded' = [loaded EXCEPT ![src] =
              LoadResult(IF /\ src = "jokes_file"
                            /\ loaded["quotes_file"] = LoadResult(<<>>, "failed")
                         THEN <<>> ELSE load_text_content(file),
                         HowParsed(file))]
    /\ UNCHANGED <<cacheVars, disk, phase, preload, tasks, last>>

LoadTextContent(src) ==
    /\ phase = "loading"
    /\ src \in {"quotes_file", "jokes_file"}
    /\ loaded[src] = NoneOpt
    /\ \E file \in TextFiles :
          loaded' = [loaded EXCEPT ![src] =
              LoadResult(load_text_content(file), HowParsed(file))]
    /\ UNCHANGED <<cacheVars, disk, phase, preload, tasks, last>>

\* the first join! has completed
AllLoaded == \A src \in Sources : loaded[src] # NoneOpt

\* initialize_cache after the first join!: update_files twice, update_quotes,
\* update_jokes; then the two preload futures are created.  The history of
\* how each list was loaded ends here.
PublishLists ==
    /\ phase = "loading"
    /\ AllLoaded
    /\ gary_files' = loaded["gary_dir"][1]
    /\ goober_files' = loaded["goober_dir"][1]
    /\ quotes' = loaded["quotes_file"][1]
    /\ jokes' = loaded["jokes_file"][1]
    /\ phase' = "preloading"
    /\ loaded' = [src \in Sources |-> LoadResult(loaded[src][1], "ok")]
    /\ UNCHANGED <<image_cache, locks, disk, preload, tasks, last>>

\* preload_images: read_dir; on error the future completes at once
PreloadOpen_with_loads(resource) ==
    /\ phase \in {"loading", "preloading"}
    /\ preload[resource].stage = "pending"
    /\ preload' = [preload EXCEPT ![resource] =
          PreloadAt("iter", DirNames(resource), NoName, TRUE, {})]
    /\ UNCHANGED <<cacheVars, disk, phase, loaded, tasks, last>>

PreloadOpen(resource) ==
    /\ phase = "preloading"
    /\ preload[resource].stage = "pending"
    /\ \E readDirOk \in BOOLEAN :
          preload' = [preload EXCEPT ![resource] =
              IF readDirOk
              THEN PreloadAt("iter", DirNames(resource), NoName, TRUE, {})
              ELSE PreloadAt("done", {}, NoName, FALSE, {})]
    /\ UNCHANGED <<cacheVars, disk, phase, loaded, tasks, last>>

\* preload_images: next_entry, file_type, metadata of one entry.  A failed
\* next_entry ends the loop; a failed file_type or metadata skips the entry;
\* otherwise the entry goes on to be read only if it is a regular file with
\* metadata.len() < 1 MiB
PreloadMetadata(resource) ==
    /\ phase = "preloading"
    /\ preload[resource].stage = "iter"
    /\ preload[resource].todo # {}
    /\ \E n \in preload[resource].todo, answer \in {"ok", "entry_failed", "next_entry_failed"} :
          LET e == disk[<<resource, n>>]
              rest == preload[resource].todo \ {n}
              pr == preload[resource]
          IN  preload' = [preload EXCEPT ![resource] =
                  IF answer = "next_entry_failed"
                  THEN PreloadAt("done", {}, NoName, FALSE, pr.stored)
                  ELSE IF answer = "entry_failed"
                  THEN PreloadAt("iter", rest, NoName, FALSE, pr.stored)
                  ELSE IF e.kind = "file" /\ e.blob.len < Threshold
                  THEN PreloadAt("read", rest, n, pr.clean, pr.stored)
                  ELSE PreloadAt("iter", rest, NoName, pr.clean, pr.stored)]
    /\ UNCHANGED <<cacheVars, disk, phase, loaded, tasks, last>>

\* preload_images: tokio::fs::read of the entry, then store_image under its
\* bare file name; a failed read skips the entry
PreloadRead(resource) ==
    /\ phase = "preloading"
    /\ preload[resource].stage = "read"
    /\ \E r \in ReadAnswers(join(DirOf(resource), preload[resource].cur)) :
          /\ image_cache' = IF r.ok
                            THEN store_image(image_cache, preload[resource].cur, r.val)
                            ELSE image_cache
          /\ preload' = [preload EXCEPT ![resource] =
                 PreloadAt("iter", @.todo, NoName, @.clean /\ r.ok,
                           IF r.ok THEN @.stored \cup {@.cur} ELSE @.stored)]
    /\ UNCHANGED <<gary_files, goober_files, quotes, jokes, locks, disk, phase,
                   loaded, tasks, last>>

\* preload_images: next_entry returns None
PreloadDone(resource) ==
    /\ phase = "preloading"
    /\ preload[resource].stage = "iter"
    /\ preload[resource].todo = {}
    /\ preload' = [preload EXCEPT ![resource].stage = "done"]
    /\ UNCHANGED <<cacheVars, disk, phase, loaded, tasks, last>>

\* the second join! has completed
AllPreloaded_detached == TRUE

AllPreloaded == \A resource \in ResourceType : preload[resource].stage = "done"

\* initialize_cache returns; from_config builds the Server; serve binds the
\* listener and enters the accept loop
Serve ==
    /\ phase = "preloading"
    /\ AllPreloaded
    /\ phase' = "serving"
    /\ preload' = [resource \in ResourceType |->
           [preload[resource] EXCEPT !.clean = TRUE, !.stored = {}]]
    /\ UNCHANGED <<cacheVars, disk, loaded, tasks, last>>

----------------------------------------------------------------------------
(* Spec: request dispatch.  handlers.rs RequestDispatcher, responses.rs       *)

\* request tasks; the accept loop hands a request to the first free one
TaskIds == 1..2

ReqPaths ==
    {P_root, P_gary, P_goober, P_gary_count, P_goober_count, P_quote, P_joke,
     P_gary_image, P_goober_image \o <<"a">>,
     P_Gary \o NameA, P_Goober \o NameA, P_Gary \o <<".", ".">>,
     <<"/", "n", "o", "n", "s", "e", "n", "s", "e">>}

\* the requests the model issues: every path with GET, two paths with POST
Requests ==
    {<<"GET", path>> : path \in ReqPaths}
        \cup {<<"POST", P_quote>>, <<"POST", P_Gary \o NameA>>}

\* an HTTP response: status, kind of body, and the payload of the body
Resp(status, tag, blob, text, num) ==
    [status |-> status, tag |-> tag, blob |-> blob, text |-> text, num |-> num]

NoResp == Resp(0, "none", NoBlob, <<>>, 0)

\* a response that tells the client its method is not allowed
method_not_allowed_response == Resp(405, "Method Not Allowed", NoBlob, <<>>, 0)

\* DefaultResponser::not_found_response
not_found_response == Resp(404, "Not Found", NoBlob, <<>>, 0)

\* fast::image
fast_image(content, filename) == Resp(200, "image", content, filename, 0)

\* fast::gary_url: {"url":"<base_url>/<filename>"}
fast_gary_url(base_url, filename) ==
    Resp(200, "url", NoBlob, base_url \o <<"/">> \o filename, 0)

\* fast::quote, fast::joke, fast::error
fast_quote(content) == Resp(200, "quote", NoBlob, content, 0)
fast_joke(content) == Resp(200, "joke", NoBlob, content, 0)

fast_error_not_found(message) == Resp(404, "Not Found", NoBlob, <<>>, 0)

fast_error(message) == Resp(200, "error", NoBlob, <<message>>, 0)

\* handle_route: Docs and the two count routes
docs_response == Resp(200, "docs", NoBlob, <<>>, 0)
count_response(count) == Resp(200, "count", NoBlob, <<>>, count)

\* Result<Response, GaryError> of handle_route
OkResult(resp) == [variant |-> "Ok", resp |-> resp]
ErrResult(variant) == [variant |-> variant, resp |-> NoResp]

\* serve_image_file: Err(e) => Err(GaryError::FileError(e))
file_error_result_empty_image == OkResult(Resp(200, "image", NoBlob, <<>>, 0))

file_error_result == ErrResult("FileError")

\* RequestDispatcher::dispatch, the final match: Ok(response) => response,
\* Err(_) => not_found_response()
dispatch_result(result) ==
    IF result.variant = "Ok" THEN result.resp ELSE not_found_response

\* the resource kind of a route (Route::resource_type, extended to counts)
KindOf(route) ==
    IF route.tag \in {"GaryUrl", "GaryImage", "GaryFile", "GaryCount"}
    THEN Gary ELSE Goober

FilesOf(resource) == ListOf(get_files(resource))

\* the values get_random_file(resource) can return now
get_random_file(resource) ==
    LET files == FilesOf(resource) IN
    IF files = <<>> THEN {NoneOpt}
    ELSE {Some(files[i + 1]) : i \in random_index(Len(files))}

get_random_text(l) ==
    LET v == ListOf(l) IN
    IF v = <<>> THEN {NoneOpt}
    ELSE {Some(v[i + 1]) : i \in random_index(Len(v))}

\* .unwrap_or_else(|| FileName::new_unchecked(resource.default_image()))
unwrap_or_default_gary(picked, resource) ==
    IF picked = NoneOpt THEN FileName_new_unchecked(default_image(Gary))
    ELSE picked[1]

unwrap_or_default(picked, resource) ==
    IF picked = NoneOpt THEN FileName_new_unchecked(default_image(resource))
    ELSE picked[1]

\* the callers of handle_route: dispatch and the three specialized handlers
Dispatcher == "RequestDispatcher"
Handlers == {"UrlHandler", "ImageHandler", "TextHandler"}

\* pc, method, path, resource, filename: the suspended serve_image_file.
\* History: handler is the caller of handle_route, cached is the entry of
\* the key when it was looked up, raced whether another request stored the
\* key since.
IdleTask ==
    [pc |-> "idle", handler |-> Dispatcher, method |-> "GET", path |-> <<>>,
     resource |-> Gary, filename |-> NoName, cached |-> NoneOpt, raced |-> FALSE]

\* the record of the request a step completes (NoLast after a step that
\* completes none).  kind is the way it was answered:
\* "method" (not GET), "direct" (no image served), "hit", "read_ok",
\* "read_err".  result is what handle_route returned, response what dispatch
\* returned.  History: cached is the entry of the key when it was looked up,
\* bytes the content the disk read returned, reads the number of disk reads
\* the request made, read_path the path it read, raced whether another
\* request stored the key while this one was reading, cacheBefore the image
\* cache just before the request completed.
Done(t, method, path, route, kind, result, filename, cached, bytes, reads, read_path, raced) ==
    [handler |-> Dispatcher, method |-> method, path |-> path, route |-> route,
     kind |-> kind, result |-> result, response |-> dispatch_result(result),
     filename |-> filename, cached |-> cached, bytes |-> bytes, reads |-> reads,
     read_path |-> read_path, raced |-> raced, cacheBefore |-> image_cache]

NoLast ==
    [handler |-> Dispatcher, method |-> "GET", path |-> <<>>, route |-> NoRoute,
     kind |-> "none", result |-> ErrResult("none"), response |-> NoResp,
     filename |-> NoName, cached |-> NoneOpt, bytes |-> NoneOpt, reads |-> 0,
     read_path |-> <<>>, raced |-> FALSE, cacheBefore |-> EmptyMap]

\* the record of a request that reached handle_route through handler
CalledBy(handler, done) == [done EXCEPT !.handler = handler]

\* serve_image_file before its await: get_image; a hit answers at once, a
\* miss leaves the task suspended on tokio::fs::read
ServeImageStart(t, handler, method, path, route, resource, filename) ==
    LET cache_key == CacheKey_from(filename)
        content == get_image(image_cache, cache_key)
        entry == IF cache_key \in DOMAIN image_cache
                 THEN Some(image_cache[cache_key]) ELSE NoneOpt
    IN  IF content # NoneOpt
        THEN /\ last' = CalledBy(handler,
                             Done(t, method, path, route, "hit",
                                  OkResult(fast_image(content[1], filename)),
                                  filename, entry, NoneOpt, 0, <<>>, FALSE))
             /\ UNCHANGED tasks
        ELSE /\ tasks' = [tasks EXCEPT ![t] =
                    [pc |-> "reading", handler |-> handler,
                     method |-> method, path |-> path,
                     resource |-> resource, filename |-> filename,
                     cached |-> entry, raced |-> FALSE]]
             /\ UNCHANGED last

\* RequestDispatcher::handle_route up to its result or to the first await
handle_route(t, handler, method, path, route) ==
    LET direct(result) ==
            /\ last' = CalledBy(handler,
                            Done(t, method, path, route, "direct", result,
                                 NoName, NoneOpt, NoneOpt, 0, <<>>, FALSE))
            /\ UNCHANGED tasks
    IN
    CASE route.tag = "Docs" -> direct(OkResult(docs_response))
      [] route.tag \in {"GaryCount", "GooberCount"} ->
           direct(OkResult(count_response(Len(FilesOf(KindOf(route))))))
      [] route.tag \in {"GaryUrl", "GooberUrl"} ->
           \E picked \in get_random_file(KindOf(route)) :
              direct(OkResult(fast_gary_url(
                  IF KindOf(route) = Gary THEN gary_base_url ELSE goober_base_url,
                  unwrap_or_default(picked, KindOf(route)))))
      [] route.tag = "Quote" ->
           \E picked \in get_random_text("quotes") :
              direct(OkResult(IF picked # NoneOpt THEN fast_quote(picked[1])
                              ELSE fast_error("No quotes available")))
      [] route.tag = "Joke" ->
           \E picked \in get_random_text("jokes") :
              direct(OkResult(IF picked # NoneOpt THEN fast_joke(picked[1])
                              ELSE fast_error("No jokes available")))
      [] route.tag \in {"GaryImage", "GooberImage"} ->
           \E picked \in get_random_file(KindOf(route)) :
              ServeImageStart(t, handler, method, path, route, KindOf(route),
                              unwrap_or_default(picked, KindOf(route)))
      [] route.tag \in {"GaryFile", "GooberFile"} ->
           ServeImageStart(t, handler, method, path, route, KindOf(route),
                           route.filename)
      [] OTHER -> direct(ErrResult("NotFound"))

\* the accept loop takes a connection and its request is dispatched:
\* dispatch and handle_route up to the response or to the first await
AcceptRequest(t, req) ==
    /\ phase = "serving"
    /\ last = NoLast
    /\ tasks[t].pc = "idle"
    /\ \A u \in TaskIds : u < t => tasks[u].pc # "idle"
    /\ LET method == req[1]
            path == req[2]
        IN
        IF method # "GET"
        THEN /\ last' = Done(t, method, path, NoRoute, "method", ErrResult("NotFound"),
                             NoName, NoneOpt, NoneOpt, 0, <<>>, FALSE)
             /\ UNCHANGED tasks
        ELSE handle_route(t, Dispatcher, method, path, from_path(path))
    /\ UNCHANGED <<cacheVars, disk, phase, loaded, preload>>

Accept(t) == \E req \in Requests : AcceptRequest(t, req)

\* the size gate of serve_image_file: bytes.len() < 1024 * 1024
CacheableSize_inclusive(len) == len <= Threshold

CacheableSize(len) == len < Threshold

\* serve_image_file after its await: Ok(content) stores the bytes when they
\* pass the size gate and answers with them; Err(e) is GaryError::FileError
ReadComplete(t) ==
    LET tk == tasks[t]
        file_path == join(DirOf(tk.resource), tk.filename)
        cache_key == CacheKey_from(tk.filename)
        route == from_path(tk.path)
    IN
    /\ phase = "serving"
    /\ last = NoLast
    /\ tk.pc = "reading"
    /\ \E r \in ReadAnswers(file_path) :
        IF r.ok
        THEN LET bytes == r.val
                 stores == CacheableSize(bytes.len)
             IN
             /\ image_cache' = IF stores THEN store_image(image_cache, cache_key, bytes)
                               ELSE image_cache
             /\ last' = CalledBy(tk.handler,
                             Done(t, tk.method, tk.path, route, "read_ok",
                                  OkResult(fast_image(bytes, tk.filename)),
                                  tk.filename, tk.cached, Some(bytes), 1, file_path,
                                  tk.raced))
             /\ tasks' = [u \in TaskIds |->
                    IF u = t THEN IdleTask
                    ELSE IF stores /\ tasks[u].pc = "reading"
                            /\ CacheKey_from(tasks[u].filename) = cache_key
                         THEN [tasks[u] EXCEPT !.raced = TRUE]
                         ELSE tasks[u]]
        ELSE /\ last' = CalledBy(tk.handler,
                             Done(t, tk.method, tk.path, route, "read_err",
                                  file_error_result,
                                  tk.filename, tk.cached, NoneOpt, 1, file_path,
                                  tk.raced))
             /\ tasks' = [tasks EXCEPT ![t] = IdleTask]
             /\ UNCHANGED image_cache
    /\ UNCHANGED <<gary_files, goober_files, quotes, jokes, locks, disk, phase,
                   loaded, preload>>

\* the filesystem changes under the program, at any moment
FsChange ==
    /\ phase # "off"
    /\ last = NoLast
    /\ \E sl \in DiskSlots : \E e \in Entries(sl[1]) :
          /\ e # disk[sl]
          /\ disk' = [disk EXCEPT ![sl] = e]
          /\ preload' = [preload EXCEPT ![sl[1]].clean =
                 @ /\ ~(phase = "preloading" /\ preload[sl[1]].stage # "pending")]
    /\ UNCHANGED <<cacheVars, phase, loaded, tasks, last>>

\* the response of the completed request is written to its connection; the
\* model observes a response in the state its request completes in, before
\* any other step is taken, and then forgets it
Respond ==
    /\ last # NoLast
    /\ last' = NoLast
    /\ UNCHANGED <<cacheVars, disk, phase, loaded, preload, tasks>>

Init ==
    /\ CacheNew
    /\ ClientsIdle
    /\ RouteIdle
    /\ LoaderIdle
    /\ TypesIdle
    /\ MetricsIdle
    /\ disk \in {d \in [DiskSlots -> UNION {Entries(r) : r \in ResourceType}] :
                   \A sl \in DiskSlots : d[sl] \in Entries(sl[1])}
    /\ phase = "new"
    /\ loaded = [src \in Sources |-> NoneOpt]
    /\ preload = [resource \in ResourceType |-> PreloadIdle]
    /\ tasks = [t \in TaskIds |-> IdleTask]
    /\ last = NoLast

NextServer ==
    \/ FromConfig
    \/ \E resource \in ResourceType : LoadFileList(resource)
    \/ \E src \in Sources : LoadTextContent(src)
    \/ PublishLists
    \/ \E resource \in ResourceType : PreloadOpen(resource)
    \/ \E resource \in ResourceType : PreloadMetadata(resource)
    \/ \E resource \in ResourceType : PreloadRead(resource)
    \/ \E resource \in ResourceType : PreloadDone(resource)
    \/ Serve
    \/ FsChange
    \/ \E t \in TaskIds : Accept(t)
    \/ \E t \in TaskIds : ReadComplete(t)
    \/ Respond

Next == NextServer /\ UNCHANGED <<routeVars, clientVars, loaderVars, typesVars, metricsVars>>

Spec == Init /\ [][Next]_vars

----------------------------------------------------------------------------
(* SpecLive: the serving phase of Spec under the scheduling of the runtime  *)

ServerOnly == UNCHANGED <<routeVars, clientVars, loaderVars, typesVars, metricsVars>>

\* the lists load_file_list gives for a directory that could not be read
\* and for one that holds a regular file
ListedFiles == {<<>>, <<NameA>>}

\* the texts of a start-up in which the quotes file was read and parsed and
\* the jokes file could not be read
LoadedQuotes == load_text_content([readable |-> TRUE, json |-> Some(<<TextY, TextX>>)])
LoadedJokes == load_text_content([readable |-> FALSE, json |-> NoneOpt])

\* the image caches the two preloads leave behind
PreloadedCaches ==
    {EmptyMap} \cup {[k \in {NameA} |-> b] : b \in {Blob1, Blob2}}

\* the states Spec is in when Serve has been taken and no request has come:
\* the lists of a start-up published, the preloads returned, any disk
InitLive ==
    /\ gary_files \in ListedFiles
    /\ goober_files \in ListedFiles
    /\ quotes = LoadedQuotes
    /\ jokes = LoadedJokes
    /\ loaded = [src \in Sources |->
           LoadResult(CASE src = "gary_dir" -> gary_files
                        [] src = "goober_dir" -> goober_files
                        [] src = "quotes_file" -> quotes
                        [] OTHER -> jokes, "ok")]
    /\ image_cache \in PreloadedCaches
    /\ locks = FreeLocks
    /\ ClientsIdle
    /\ RouteIdle
    /\ LoaderIdle
    /\ TypesIdle
    /\ MetricsIdle
    /\ disk \in {d \in [DiskSlots -> UNION {Entries(r) : r \in ResourceType}] :
                   \A sl \in DiskSlots : d[sl] \in Entries(sl[1])}
    /\ phase = "serving"
    /\ preload = [resource \in ResourceType |-> PreloadReturned]
    /\ tasks = [t \in TaskIds |-> IdleTask]
    /\ last = NoLast

NextLive ==
    \/ FsChange /\ ServerOnly
    \/ \E t \in TaskIds : Accept(t) /\ ServerOnly
    \/ \E t \in TaskIds : ReadComplete(t) /\ ServerOnly
    \/ Respond /\ ServerOnly

\* the runtime polls a task whose disk read has been answered, with success
\* or with failure, and writes out a response that has been produced
SpecLive ==
    /\ InitLive
    /\ [][NextLive]_vars
    /\ \A t \in TaskIds : SF_vars(ReadComplete(t) /\ ServerOnly)
    /\ WF_vars(Respond /\ ServerOnly)

----------------------------------------------------------------------------
(* SpecHandlers: UrlHandler, ImageHandler and TextHandler called with the   *)
(* state of a serving program.  handlers.rs:226-339                         *)

\* RequestHandler::can_handle of the three handlers
can_handle(handler, route) ==
    CASE handler = "UrlHandler" -> is_url_route(route)
      [] handler = "ImageHandler" -> is_image_route(route)
      [] handler = "TextHandler" -> is_text_route(route)

\* AsyncRequestHandler::handle_request of the three handlers, up to the
\* result or to the first await: the route is parsed from the path of the
\* request, the method is not looked at
HandleRequest(t, handler, req) ==
    /\ phase = "serving"
    /\ last = NoLast
    /\ tasks[t].pc = "idle"
    /\ \A u \in TaskIds : u < t => tasks[u].pc # "idle"
    /\ LET method == req[1]
            path == req[2]
            route == from_path(path)
            delegates ==
                CASE handler = "UrlHandler" -> route.tag \in {"GaryUrl", "GooberUrl"}
                  [] handler = "ImageHandler" -> is_image_route(route)
                  [] handler = "TextHandler" -> is_text_route(route)
        IN
        IF delegates
        THEN handle_route(t, handler, method, path, route)
        ELSE /\ last' = CalledBy(handler,
                             Done(t, method, path, route, "invalid",
                                  ErrResult("InvalidRoute"),
                                  NoName, NoneOpt, NoneOpt, 0, <<>>, FALSE))
             /\ UNCHANGED tasks
    /\ UNCHANGED <<cacheVars, disk, phase, loaded, preload>>

NextHandlers ==
    \/ FsChange /\ ServerOnly
    \/ \E t \in TaskIds : \E handler \in Handlers : \E req \in Requests : HandleRequest(t, handler, req) /\ ServerOnly
    \/ \E t \in TaskIds : ReadComplete(t) /\ ServerOnly
    \/ Respond /\ ServerOnly

SpecHandlers == InitLive /\ [][NextHandlers]_vars

----------------------------------------------------------------------------
(* Claims on SpecCache *)

\* C1: for each of the four lists, once an update with a list L has taken
\* effect and no later update of that list has, the list's count operation
\* returns Len(L), and the list's get_random operation returns an element of
\* L when L is non-empty and none exactly when L is empty.  (ref is the
\* argument of the last update of the named list that had taken effect when
\* the operation read the list.)
C1_CountAndRandomFollowLastUpdate ==
    \A c \in Clients :
        LET cl == clients[c] IN
        cl.stage = "done" =>
            /\ cl.op \in CountOps => cl.result = Some(Len(cl.ref))
            /\ cl.op \in RandomOps =>
                  /\ ~cl.panic
                  /\ (cl.result = NoneOpt) <=> (cl.ref = <<>>)
                  /\ cl.result # NoneOpt => cl.result[1] \in SeqRange(cl.ref)

\* C1 witness: a get_random_joke on a list last updated with two elements
\* returned the second of them.
C1_Witness ==
    \E c \in Clients :
        /\ clients[c].stage = "done"
        /\ clients[c].op = "get_random_joke"
        /\ Len(clients[c].ref) = 2
        /\ clients[c].result = Some(clients[c].ref[2])

\* C2: when update_files(k, _) and get_random_file(k) calls interleave, no
\* call panics; while a reader holds a sampled length the list is still the
\* value the length was taken from; and every result that is present is the
\* indexed element of that value, which was the whole content of k's list at
\* some instant during the call.
C2_NoTornRead ==
    \A c \in Clients :
        LET cl == clients[c] IN
        cl.op = "get_random_file" =>
            /\ ~cl.panic
            /\ cl.stage = "indexed" =>
                  /\ ListOf(cl.target) = cl.snap
                  /\ cl.len = Len(cl.snap)
                  /\ cl.index < cl.len
            /\ (cl.stage = "done" /\ cl.result # NoneOpt) =>
                  /\ cl.snap \in cl.seen
                  /\ cl.result = Some(cl.snap[cl.index + 1])
                  /\ \E L \in cl.seen : cl.result[1] \in SeqRange(L)

\* C2 witness: a get_random_file returned an element although an
\* update_files of the same kind took effect during the call, and another
\* update_files of that kind is waiting for the lock.
C2_Witness ==
    \E c \in Clients, d \in Clients :
        /\ clients[c].stage = "done"
        /\ clients[c].op = "get_random_file"
        /\ clients[c].result # NoneOpt
        /\ Cardinality(clients[c].seen) >= 2
        /\ clients[d].op = "update_files"
        /\ clients[d].target = clients[c].target

----------------------------------------------------------------------------
(* Claims on SpecRoute *)

HasSeparator(s) == \E i \in 1..Len(s) : s[i] \in {"/", "\\"}

\* C4: a path that starts with "/Gary/" (resp. "/Goober/") is routed to
\* NotFound when the remainder after the prefix is empty or contains '/' or
\* '\', and otherwise to GaryFile (resp. GooberFile) carrying exactly the
\* remainder; so the name of every file route is non-empty and free of
\* separators, as checked construction guarantees.
C4_NamedFileRoutes ==
    rroute # NoRoute =>
        /\ StartsWith(rpath, P_Gary) =>
              LET rem == SubSeq(rpath, Len(P_Gary) + 1, Len(rpath)) IN
              IF rem = <<>> \/ HasSeparator(rem)
              THEN rroute = Route("NotFound", NoName)
              ELSE rroute = Route("GaryFile", rem)
        /\ StartsWith(rpath, P_Goober) =>
              LET rem == SubSeq(rpath, Len(P_Goober) + 1, Len(rpath)) IN
              IF rem = <<>> \/ HasSeparator(rem)
              THEN rroute = Route("NotFound", NoName)
              ELSE rroute = Route("GooberFile", rem)
        /\ rroute.tag \in {"GaryFile", "GooberFile"} =>
              /\ rroute.filename # <<>>
              /\ ~HasSeparator(rroute.filename)

\* C4 witness: "/Goober/a." was routed to GooberFile("a.").
C4_Witness ==
    /\ rpath = P_Goober \o <<"a", ".">>
    /\ rroute = Route("GooberFile", <<"a", ".">>)

----------------------------------------------------------------------------
(* Claims on Spec *)

KeyOfLast == CacheKey_from(last.filename)
ImageRoutes == {"GaryImage", "GooberImage", "GaryFile", "GooberFile"}

\* C3: in every reachable state every blob of the image cache is shorter
\* than 1 MiB (1,048,576 bytes), the filesystem being free to change between
\* any two filesystem steps.
C3_OnlySmallBlobsCached ==
    \A k \in DOMAIN image_cache : image_cache[k].len < Threshold

\* C5: a request served by the image path after a cache miss whose disk
\* read succeeded with fewer than 1 MiB answers with exactly the bytes read,
\* and once it has completed get_image of its key returns those bytes.
C5_SmallReadIsServedAndCached ==
    (last.kind = "read_ok" /\ last.bytes[1].len < Threshold) =>
        /\ last.cached = NoneOpt
        /\ last.result.variant = "Ok"
        /\ last.response = Resp(200, "image", last.bytes[1], last.filename, 0)
        /\ get_image(image_cache, KeyOfLast) = Some(last.bytes[1])

\* C5 witness: a request for /Gary/a missed, read 10 KB from disk while
\* another request stored the same key, and completed with the bytes cached.
C5_Witness ==
    /\ last.kind = "read_ok"
    /\ last.route = Route("GaryFile", NameA)
    /\ last.bytes = Some(Blob1)
    /\ last.raced
    /\ image_cache[NameA] = Blob1

\* C6: a request served by the image path after a cache miss whose disk
\* read succeeded with 1 MiB or more answers with exactly the bytes read and
\* leaves the image cache as it was: it adds no entry for its key, which is
\* absent afterwards unless another request stored it in the meantime.
C6_BigReadIsServedNotCached ==
    (last.kind = "read_ok" /\ last.bytes[1].len >= Threshold) =>
        /\ last.result.variant = "Ok"
        /\ last.response = Resp(200, "image", last.bytes[1], last.filename, 0)
        /\ image_cache = last.cacheBefore
        /\ ~last.raced => KeyOfLast \notin DOMAIN image_cache

\* C6 witness: a file of exactly 1,048,576 bytes was read and served, and
\* its key is absent from the image cache.
C6_Witness ==
    /\ last.kind = "read_ok"
    /\ last.bytes[1].len = Threshold
    /\ last.response.blob = last.bytes[1]
    /\ KeyOfLast \notin DOMAIN image_cache

\* C7: when the image path finds the key in the image cache, the response
\* carries exactly the cached bytes and the request makes no disk read,
\* whatever the file on disk is now; no task is suspended on a disk read for
\* a key that its lookup found.
C7_HitServesCachedBytesWithoutDisk ==
    /\ \A t \in TaskIds : tasks[t].pc = "reading" => tasks[t].cached = NoneOpt
    /\ (last.route.tag \in ImageRoutes /\ last.cached # NoneOpt) =>
          /\ last.kind = "hit"
          /\ last.reads = 0
          /\ last.result.variant = "Ok"
          /\ last.response = Resp(200, "image", last.cached[1], last.filename, 0)

\* C7 witness: /Gary/a was answered from the cache with the 10 KB blob
\* while the file is absent from the Gary directory.
C7_Witness ==
    /\ last.kind = "hit"
    /\ last.route = Route("GaryFile", NameA)
    /\ last.response.blob = Blob1
    /\ disk[<<Gary, NameA>>] = Absent

\* C8: when the image path misses the cache and the disk read fails, the
\* result is a file error: one read was made, of the requested file in the
\* directory of its kind, no image is served in its place, and the image
\* cache is unchanged.
C8_ReadFailureIsFileError ==
    last.kind = "read_err" =>
        /\ last.result = ErrResult("FileError")
        /\ last.reads = 1
        /\ last.read_path = join(DirOf(KindOf(last.route)), last.filename)
        /\ last.route.tag \in {"GaryFile", "GooberFile"} =>
              last.filename = last.route.filename
        /\ last.response.tag # "image"
        /\ image_cache = last.cacheBefore

\* C8 witness: /Goober/a failed to read although the Goober directory holds
\* the file, and the image cache is still empty.
C8_Witness ==
    /\ last.kind = "read_err"
    /\ last.route = Route("GooberFile", NameA)
    /\ disk[<<Goober, NameA>>].kind = "file"
    /\ image_cache = EmptyMap

\* C9: the response dispatch returns for a request whose disk read failed is
\* distinct from the not-found response it returns for an unknown path.
C9_FileErrorDistinctFromNotFound ==
    last.kind = "read_err" => last.response # not_found_response

\* C10: no request is dispatched before start-up has finished: whenever a
\* request is in progress or has just completed, the server is serving, the
\* four loads are done and published, and both image preloads are done.
C10_NoRequestBeforeInitialized ==
    ((\E t \in TaskIds : tasks[t].pc # "idle") \/ last # NoLast) =>
        /\ phase = "serving"
        /\ \A src \in Sources : loaded[src] # NoneOpt
        /\ gary_files = loaded["gary_dir"][1]
        /\ goober_files = loaded["goober_dir"][1]
        /\ quotes = loaded["quotes_file"][1]
        /\ jokes = loaded["jokes_file"][1]
        /\ \A resource \in ResourceType : preload[resource].stage = "done"

\* C10 witness: a request is suspended on a disk read while the server is
\* serving with lists and an image that start-up loaded.
C10_Witness ==
    /\ phase = "serving"
    /\ tasks[1].pc = "reading"
    /\ gary_files = <<NameA>>
    /\ quotes = <<TextY, TextX>>
    /\ NameA \in DOMAIN image_cache

----------------------------------------------------------------------------
(* Claims on start-up *)

\* the load future of a source, and the steps of a preload future
LoadOf(src) ==
    IF src = "gary_dir" THEN LoadFileList(Gary)
    ELSE IF src = "goober_dir" THEN LoadFileList(Goober)
    ELSE LoadTextContent(src)

PreloadStep(resource) ==
    \/ PreloadOpen(resource)
    \/ PreloadMetadata(resource)
    \/ PreloadRead(resource)
    \/ PreloadDone(resource)

Published == phase \in {"preloading", "serving"}

ListsAreLoaded ==
    /\ \A src \in Sources : loaded[src] # NoneOpt
    /\ gary_files = loaded["gary_dir"][1]
    /\ goober_files = loaded["goober_dir"][1]
    /\ quotes = loaded["quotes_file"][1]
    /\ jokes = loaded["jokes_file"][1]

NoFailureOutcomes(src) ==
    IF src = "gary_dir" THEN Orderings(RegularFiles(Gary))
    ELSE IF src = "goober_dir" THEN Orderings(RegularFiles(Goober))
    ELSE {<<TextY, TextX>>}

OtherOf(resource) == IF resource = Gary THEN Goober ELSE Gary

\* a load future completes: only its own result appears, empty when its
\* source failed and the no-failure result when nothing failed
LoadStepIsolated(src) ==
    (loaded[src] = NoneOpt /\ loaded'[src] # NoneOpt) =>
        /\ \A other \in Sources \ {src} : loaded'[other] = loaded[other]
        /\ UNCHANGED <<cacheVars, preload, phase>>
        /\ loaded'[src][2] = "failed" => loaded'[src][1] = <<>>
        /\ loaded'[src][2] = "ok" => loaded'[src][1] \in NoFailureOutcomes(src)

\* the publication gives every list the result of its own load
PublishStepIsolated ==
    (~Published /\ Published') =>
        /\ gary_files' = loaded["gary_dir"][1]
        /\ goober_files' = loaded["goober_dir"][1]
        /\ quotes' = loaded["quotes_file"][1]
        /\ jokes' = loaded["jokes_file"][1]
        /\ \A src \in Sources : loaded[src][2] = "failed" => loaded[src][1] = <<>>
        /\ UNCHANGED <<image_cache, preload>>

\* where a preload future stands
PreloadPosition(resource) ==
    <<preload[resource].stage, preload[resource].todo, preload[resource].cur>>

\* a preload step of one directory leaves the other preload and the lists
\* alone and stores at most one file of its own directory
PreloadStepIsolated(resource) ==
    (PreloadPosition(resource)' # PreloadPosition(resource)) =>
        /\ PreloadPosition(OtherOf(resource))' = PreloadPosition(OtherOf(resource))
        /\ UNCHANGED <<gary_files, goober_files, quotes, jokes>>
        /\ \/ image_cache' = image_cache
           \/ \E n \in RegularFiles(resource) :
                 image_cache' = [k \in DOMAIN image_cache \cup {n} |->
                     IF k = n THEN disk[<<resource, n>>].blob ELSE image_cache[k]]

----------------------------------------------------------------------------
(* Claims on SpecLoader *)

\* the entries the loop of load_file_list reached
Reached == 1..lsource.yielded

\* an error met while enumerating: read_dir failed, next_entry failed before
\* the end of the listing, or file_type failed on an entry that was reached
EnumerationError ==
    \/ ~lsource.readDirOk
    \/ lsource.yielded < Len(lsource.listing)
    \/ \E i \in Reached : ~lsource.listing[i].typeOk

\* the positions of the reached entries that are regular files whose
\* file_type succeeded
Kept == {i \in Reached : lsource.listing[i].is_file /\ lsource.listing[i].typeOk}

UnusableText == ~lsource.file.readable \/ lsource.file.json = NoneOpt

QUOTE_PREFIX == <<"{", "\"", "q", "u", "o", "t", "e", "\"", ":", "\"">>
QUOTE_END == <<"\"", "}">>

\* ResponseBuilder::build_json_response: the body is prefix, content, suffix
build_json_response(prefix, content, suffix) == prefix \o content \o suffix

\* ResponseBuilder::build_quote_response: the body of the quote response
build_quote_response(quote) == build_json_response(QUOTE_PREFIX, quote, QUOTE_END)

\* JSON (RFC 8259): the characters of a string literal are read up to its
\* closing quote; a control character must be escaped, a backslash starts
\* one of the escapes, and after the closing quote only "}" may follow.
\* The value is the decoded string, or none when the text is not well formed.
RECURSIVE JsonStringThenEnd(_, _)
JsonStringThenEnd(rest, acc) ==
    IF rest = <<>> THEN NoneOpt
    ELSE IF Head(rest) = "\"" THEN
        IF Tail(rest) = <<"}">> THEN Some(acc) ELSE NoneOpt
    ELSE IF Head(rest) = "\\" THEN
        IF Len(rest) < 2 THEN NoneOpt
        ELSE IF rest[2] = "\"" THEN JsonStringThenEnd(SliceFrom(rest, 2), Append(acc, "\""))
        ELSE IF rest[2] = "\\" THEN JsonStringThenEnd(SliceFrom(rest, 2), Append(acc, "\\"))
        ELSE IF rest[2] = "n" THEN JsonStringThenEnd(SliceFrom(rest, 2), Append(acc, "\n"))
        ELSE IF rest[2] = "r" THEN JsonStringThenEnd(SliceFrom(rest, 2), Append(acc, "\r"))
        ELSE IF rest[2] = "t" THEN JsonStringThenEnd(SliceFrom(rest, 2), Append(acc, "\t"))
        ELSE IF Len(rest) >= 6 /\ SubSeq(rest, 2, 6) = <<"u", "0", "0", "0", "1">>
             THEN JsonStringThenEnd(SliceFrom(rest, 6), Append(acc, Ctl))
        ELSE NoneOpt
    ELSE IF Head(rest) \in {"\n", "\r", "\t", Ctl} THEN NoneOpt
    ELSE JsonStringThenEnd(Tail(rest), Append(acc, Head(rest)))

\* the quote value of a body, or none when the body is not a well-formed
\* object {"quote":"..."}
JsonQuoteValue(body) ==
    IF StartsWith(body, QUOTE_PREFIX)
    THEN JsonStringThenEnd(SliceFrom(body, Len(QUOTE_PREFIX)), <<>>)
    ELSE NoneOpt

\* C14: for every string s of the loaded JSON array, the blob that
\* load_text_content stored, spliced between {"quote":" and "}, is a
\* well-formed JSON object whose quote value decodes to exactly s.
C14_BlobDecodesToString ==
    (lresult # NoneOpt /\ lsource.kind = "text" /\ ~UnusableText) =>
        \A i \in 1..Len(lsource.file.json[1]) :
            JsonQuoteValue(build_quote_response(lresult[1][i]))
                = Some(lsource.file.json[1][i])

----------------------------------------------------------------------------
(* Claims on the image operations of SpecCache *)

\* C15: a get_image(key) that follows a store_image(key, B), with no later
\* store_image for that key, returns Some(B).
C15_GetReturnsLastStored ==
    \A c \in Clients :
        LET cl == clients[c] IN
        (cl.stage = "done" /\ cl.op = "get_image" /\ cl.ref # NoneOpt) =>
            cl.result = cl.ref

\* C15 witness: get_image of key b returned the blob stored for b while key
\* a holds another blob.
C15_Witness ==
    \E c \in Clients :
        /\ clients[c].stage = "done"
        /\ clients[c].op = "get_image"
        /\ clients[c].key = NameB
        /\ clients[c].result = Some(Blob2)
        /\ Lookup(image_cache, NameA) = Some(Blob1)

\* C16: store_image(key, B) inserts the entry when the key is absent and
\* overwrites it when present, leaves the value of every other key as it was
\* and removes no key; after interleaved stores each key holds the blob of
\* the call that took the write lock last.
C16_InsertOrOverwriteOnly ==
    /\ image_cache = written["image_cache"]
    /\ \A c \in Clients :
          LET cl == clients[c] IN
          (cl.stage = "done" /\ cl.op = "store_image") =>
              /\ DOMAIN image_cache = DOMAIN cl.snap \cup {cl.key}
              /\ image_cache[cl.key] = cl.arg
              /\ \A k \in DOMAIN cl.snap \ {cl.key} : image_cache[k] = cl.snap[k]

\* C16 witness: a store overwrote a different blob of its key while the
\* other key was present.
C16_Witness ==
    \E c \in Clients :
        /\ clients[c].stage = "done"
        /\ clients[c].op = "store_image"
        /\ clients[c].key \in DOMAIN clients[c].snap
        /\ clients[c].snap[clients[c].key] # clients[c].arg
        /\ DOMAIN clients[c].snap = CacheKeys
        /\ image_cache[clients[c].key] = clients[c].arg

\* a step of a get_image call
GetImageStep(c) ==
    /\ clients'[c] # clients[c]
    /\ clients[c].op = "get_image" \/ clients'[c].op = "get_image"

\* C17: a get_image returns what the previous get_image of the same key
\* returned when no store_image for that key came between them, and no step
\* of a get_image changes the lists or the image cache.
C17_GetIsRepeatableAndReadOnly ==
    /\ [](\A c \in Clients :
            (clients[c].stage = "done" /\ clients[c].op = "get_image") =>
                /\ \A r \in clients[c].seen : r = clients[c].result
                /\ image_cache = clients[c].snap)
    /\ [][\A c \in Clients :
            GetImageStep(c) =>
                UNCHANGED <<gary_files, goober_files, quotes, jokes, image_cache>>]_vars

\* C17 witness: a second get_image of a stored key has returned, with the
\* result of the first on record.
C17_Witness ==
    \E c \in Clients :
        /\ clients[c].stage = "done"
        /\ clients[c].op = "get_image"
        /\ clients[c].seen = {clients[c].result}
        /\ clients[c].result = Some(Blob1)

\* C18: the set of keys of the image cache never shrinks: a key present in
\* one state is present in the next, whatever operation takes the step.
C18_KeysNeverShrink ==
    [][DOMAIN image_cache \subseteq DOMAIN image_cache']_vars

\* C18 witness: with one key cached, a store of another key has completed
\* and both keys are present.
C18_Witness ==
    \E c \in Clients :
        /\ clients[c].stage = "done"
        /\ clients[c].op = "store_image"
        /\ DOMAIN clients[c].snap = {NameA}
        /\ DOMAIN image_cache = {NameA, NameB}

----------------------------------------------------------------------------
(* Claims on the literal routes of SpecRoute *)

\* the variants of enum Route
RouteTags ==
    {"Docs", "GaryCount", "GooberCount", "GaryUrl", "GooberUrl", "Quote", "Joke",
     "GaryImage", "GooberImage", "GaryFile", "GooberFile", "NotFound"}

LiteralRoutes ==
    {<<<<"/">>, "Docs">>,
     <<<<"/", "g", "a", "r", "y", "/", "c", "o", "u", "n", "t">>, "GaryCount">>,
     <<<<"/", "g", "o", "o", "b", "e", "r", "/", "c", "o", "u", "n", "t">>, "GooberCount">>,
     <<<<"/", "g", "a", "r", "y">>, "GaryUrl">>,
     <<<<"/", "g", "o", "o", "b", "e", "r">>, "GooberUrl">>,
     <<<<"/", "q", "u", "o", "t", "e">>, "Quote">>,
     <<<<"/", "j", "o", "k", "e">>, "Joke">>}

RoutePrefixes ==
    {<<"/", "g", "a", "r", "y", "/", "i", "m", "a", "g", "e", "/">>,
     <<"/", "g", "o", "o", "b", "e", "r", "/", "i", "m", "a", "g", "e", "/">>,
     <<"/", "G", "a", "r", "y", "/">>,
     <<"/", "G", "o", "o", "b", "e", "r", "/">>}

HasPrefix(s, pre) ==
    /\ Len(s) >= Len(pre)
    /\ \A i \in 1..Len(pre) : s[i] = pre[i]

\* C20: from_path maps exactly the seven literal paths to Docs, GaryCount,
\* GooberCount, GaryUrl, GooberUrl, Quote and Joke, each to its own, and maps
\* to NotFound every path that equals none of them and starts with none of
\* the four prefixes.
C20_LiteralsAndNearMisses ==
    rroute # NoRoute =>
        /\ \A lr \in LiteralRoutes :
              (rpath = lr[1]) <=> (rroute = Route(lr[2], NoName))
        /\ ((\A lr \in LiteralRoutes : rpath # lr[1])
               /\ (\A pre \in RoutePrefixes : ~HasPrefix(rpath, pre)))
              => rroute = Route("NotFound", NoName)

\* C20 witness: the near-miss "/gary/image", without the closing slash of
\* the prefix, was parsed to NotFound.
C20_Witness ==
    /\ rpath = <<"/", "g", "a", "r", "y", "/", "i", "m", "a", "g", "e">>
    /\ rroute = Route("NotFound", NoName)

----------------------------------------------------------------------------
(* Claims on the image prefixes of SpecRoute *)

\* C21: every path that starts with "/gary/image/" (resp. "/goober/image/")
\* is routed to GaryImage (resp. GooberImage) whatever follows the prefix: an
\* empty remainder, a remainder with '/' or '\' or "..".  The route carries
\* no file name and nothing else of the remainder, so what the dispatcher
\* serves for it cannot depend on the remainder.
C21_ImagePrefixIgnoresRemainder ==
    rroute # NoRoute =>
        /\ HasPrefix(rpath, <<"/", "g", "a", "r", "y", "/", "i", "m", "a", "g", "e", "/">>) =>
              rroute = Route("GaryImage", NoName)
        /\ HasPrefix(rpath, <<"/", "g", "o", "o", "b", "e", "r", "/", "i", "m", "a", "g", "e", "/">>) =>
              rroute = Route("GooberImage", NoName)

\* C21 witness: "/goober/image/.." was parsed to GooberImage.
C21_Witness ==
    /\ rpath = <<"/", "g", "o", "o", "b", "e", "r", "/", "i", "m", "a", "g", "e", "/", ".", ".">>
    /\ rroute = Route("GooberImage", NoName)

----------------------------------------------------------------------------
(* Claims on SpecTypes *)

\* C22: FileName::new(raw) fails exactly when raw is empty or contains '/'
\* or '\'; when it succeeds the FileName holds raw unchanged;
\* FileName::new_unchecked(raw) can be called on every raw, never fails and
\* holds raw unchanged, also for a raw that FileName::new rejects.
C22_CheckedAndUncheckedNames ==
    /\ (tresult = NoneOpt /\ tcall.fn = "FileName::new") => ENABLED CallFileNameNew
    /\ (tresult = NoneOpt /\ tcall.fn = "FileName::new_unchecked") =>
          ENABLED CallFileNameNewUnchecked
    /\ (tresult # NoneOpt /\ tcall.fn = "FileName::new") =>
          /\ ~tresult[1].ok <=> (tcall.raw = <<>> \/ HasSeparator(tcall.raw))
          /\ tresult[1].ok => tresult[1].name = tcall.raw
    /\ (tresult # NoneOpt /\ tcall.fn = "FileName::new_unchecked") =>
          tresult[1] = tcall.raw

\* C22 witness: FileName::new_unchecked returned a name for "../", which
\* FileName::new rejects.
C22_Witness ==
    /\ tcall = [fn |-> "FileName::new_unchecked", raw |-> <<".", ".", "/">>]
    /\ tresult = Some(<<".", ".", "/">>)
    /\ ~FileName_new(tcall.raw).ok

----------------------------------------------------------------------------
(* Claims on the routes that Spec answers without a disk read *)

TextRoutes == {"Quote", "Joke"}

\* the list a text route reads
TextListOf(tag) == IF tag = "Quote" THEN quotes ELSE jokes

\* C23: a request for the Quote (resp. Joke) route is answered in its
\* dispatch step, never suspended and never waiting for a writer of the
\* list; with an empty quotes (resp. jokes) list the response is the normal
\* (200) response carrying "No quotes available" (resp. "No jokes
\* available"), neither an error result nor the not-found response; with a
\* non-empty list it is the quote (resp. joke) response carrying one element
\* of the current list.
C23_TextRoutesNeverFail ==
    /\ \A t \in TaskIds :
          tasks[t].pc # "idle" => from_path(tasks[t].path).tag \notin TextRoutes
    /\ phase = "serving" => locks["quotes"].writer = None /\ locks["jokes"].writer = None
    /\ last.route.tag \in TextRoutes =>
          /\ last.kind = "direct"
          /\ last.result.variant = "Ok"
          /\ last.response = last.result.resp
          /\ last.response # not_found_response
          /\ last.response.status = 200
          /\ IF TextListOf(last.route.tag) = <<>>
             THEN last.response =
                     Resp(200, "error", NoBlob,
                          IF last.route.tag = "Quote" THEN <<"No quotes available">>
                          ELSE <<"No jokes available">>, 0)
             ELSE \E i \in 1..Len(TextListOf(last.route.tag)) :
                     last.response =
                         Resp(200, IF last.route.tag = "Quote" THEN "quote" ELSE "joke",
                              NoBlob, TextListOf(last.route.tag)[i], 0)

\* C23 witness: /joke was answered with "No jokes available" while the
\* quotes list holds two quotes.
C23_Witness ==
    /\ last.route = Route("Joke", NoName)
    /\ jokes = <<>>
    /\ Len(quotes) = 2
    /\ last.response.tag = "error"
    /\ last.response.text = <<"No jokes available">>

UrlRoutes == {"GaryUrl", "GooberUrl"}

BaseUrlOf(resource) == IF resource = Gary THEN gary_base_url ELSE goober_base_url

\* "Gary76.jpg" and "goober8.jpg"
DefaultNameOf(resource) ==
    IF resource = Gary
    THEN <<"G", "a", "r", "y", "7", "6", ".", "j", "p", "g">>
    ELSE <<"g", "o", "o", "b", "e", "r", "8", ".", "j", "p", "g">>

\* the names RandomRef(kind) and RandomImage(kind) can resolve to now: the
\* elements of kind's list, or kind's default name when the list is empty
ResolvableNames(resource) ==
    IF FilesOf(resource) = <<>> THEN {DefaultNameOf(resource)}
    ELSE SeqRange(FilesOf(resource))

\* a step that completes a request for one of the given routes
Completes(routeTags) == last'.route.tag \in routeTags

\* C24: a request for the URL route of a kind never fails: it is answered in
\* its dispatch step with the URL response built from the base URL configured
\* for the kind and a name of the kind's current list, or the kind's default
\* name ("Gary76.jpg", "goober8.jpg") when the list is empty; it makes no disk
\* read, and the step that answers it changes neither the lists nor the image
\* cache nor a lock.
C24_UrlRouteNeverFails ==
    /\ [](last.route.tag \in UrlRoutes =>
            /\ last.kind = "direct"
            /\ last.result.variant = "Ok"
            /\ last.reads = 0
            /\ \E name \in ResolvableNames(KindOf(last.route)) :
                  last.response =
                      Resp(200, "url", NoBlob,
                           BaseUrlOf(KindOf(last.route)) \o <<"/">> \o name, 0))
    /\ [](\A t \in TaskIds :
            tasks[t].pc # "idle" => from_path(tasks[t].path).tag \notin UrlRoutes)
    /\ [][Completes(UrlRoutes) => UNCHANGED cacheVars]_vars

\* C24 witness: /goober was answered with the Goober base URL and
\* "goober8.jpg" because the Goober list is empty, while the Gary list is not.
C24_Witness ==
    /\ last.route = Route("GooberUrl", NoName)
    /\ goober_files = <<>>
    /\ gary_files # <<>>
    /\ last.response.text =
          goober_base_url \o <<"/", "g", "o", "o", "b", "e", "r", "8", ".", "j", "p", "g">>

----------------------------------------------------------------------------
(* Claims on the random image routes of Spec *)

RandomImageRoutes == {"GaryImage", "GooberImage"}

\* "gary_images" and "goober_images"
ConfiguredDir(resource) == IF resource = Gary THEN gary_dir ELSE goober_dir

\* C25: a request for the random image route of a kind resolves its file
\* name as the URL route does, to an element of the kind's current list or to
\* the kind's default name when the list is empty, and serves that name by
\* the image path: a cache hit answers with the bytes cached under the name
\* and reads nothing; a miss reads <directory of the kind>/<name> once, and a
\* successful read answers with the bytes read, which are the content of that
\* file of the kind's directory.
C25_RandomImageResolvesThenServes ==
    /\ \A t \in TaskIds :
          (tasks[t].pc = "reading" /\ from_path(tasks[t].path).tag \in RandomImageRoutes) =>
              /\ tasks[t].resource = KindOf(from_path(tasks[t].path))
              /\ tasks[t].filename \in ResolvableNames(tasks[t].resource)
              /\ tasks[t].cached = NoneOpt
    /\ last.route.tag \in RandomImageRoutes =>
          LET kind == IF last.route.tag = "GaryImage" THEN Gary ELSE Goober IN
          /\ last.filename \in ResolvableNames(kind)
          /\ last.kind \in {"hit", "read_ok", "read_err"}
          /\ last.kind = "hit" =>
                /\ last.cached # NoneOpt
                /\ last.reads = 0
                /\ last.response = Resp(200, "image", last.cached[1], last.filename, 0)
          /\ last.kind \in {"read_ok", "read_err"} =>
                /\ last.cached = NoneOpt
                /\ last.reads = 1
                /\ last.read_path = ConfiguredDir(kind) \o <<"/">> \o last.filename
          /\ last.kind = "read_ok" =>
                /\ <<kind, last.filename>> \in DiskSlots
                /\ disk[<<kind, last.filename>>] = File(last.bytes[1])
                /\ last.response = Resp(200, "image", last.bytes[1], last.filename, 0)

\* C25 witness: /goober/image/a resolved to the element a of the Goober
\* list, missed the cache, read goober_images/a and served its 1 MiB content.
C25_Witness ==
    /\ last.route = Route("GooberImage", NoName)
    /\ last.kind = "read_ok"
    /\ last.filename = NameA
    /\ goober_files = <<NameA>>
    /\ last.read_path = goober_dir \o <<"/", "a">>
    /\ last.response.blob = BlobBig2

----------------------------------------------------------------------------
(* Claims on the count routes of Spec *)

CountRoutes == {"GaryCount", "GooberCount"}

\* C26: a request for the count route of a kind is answered in its dispatch
\* step with exactly the length the kind's file list has at that moment,
\* whatever the other kind's list, the image cache and the directories hold
\* now, and the step that answers it changes neither the lists nor the image
\* cache nor a lock.
C26_CountIsLengthOfOwnList ==
    /\ [](last.route.tag \in CountRoutes =>
            /\ last.kind = "direct"
            /\ last.reads = 0
            /\ last.result.variant = "Ok"
            /\ last.response =
                  Resp(200, "count", NoBlob, <<>>,
                       IF last.route.tag = "GaryCount"
                       THEN Len(gary_files) ELSE Len(goober_files)))
    /\ [](\A t \in TaskIds :
            tasks[t].pc # "idle" => from_path(tasks[t].path).tag \notin CountRoutes)
    /\ [][Completes(CountRoutes) => UNCHANGED cacheVars]_vars

\* C26 witness: /goober/count was answered with 0 while the Gary list holds
\* one name, the Goober directory holds a regular file and an image is cached.
C26_Witness ==
    /\ last.route = Route("GooberCount", NoName)
    /\ last.response.num = 0
    /\ Len(gary_files) = 1
    /\ disk[<<Goober, NameA>>].kind = "file"
    /\ image_cache # EmptyMap

----------------------------------------------------------------------------
(* Claims on preload_images in Spec *)

\* a preload_images call has returned, none of its filesystem calls failed,
\* and its directory is as it was throughout the call
PreloadedUndisturbed(resource) ==
    /\ phase = "preloading"
    /\ preload[resource].stage = "done"
    /\ preload[resource].clean

SmallRegularFile(resource, n) ==
    /\ disk[<<resource, n>>].kind = "file"
    /\ disk[<<resource, n>>].blob.len < Threshold

\* C27: once preload_images has returned for a directory that did not change
\* during the call and whose files were all readable, the image cache holds,
\* for every regular file of the directory shorter than 1 MiB, an entry under
\* the file's bare name whose value is the content of the file; and the call
\* stored no entry for an entry that is not a regular file or for a file of
\* 1 MiB or more.
C27_PreloadCachesSmallRegularFiles ==
    \A resource \in ResourceType :
        PreloadedUndisturbed(resource) =>
            /\ \A n \in DirNames(resource) :
                  SmallRegularFile(resource, n) =>
                      /\ n \in DOMAIN image_cache
                      /\ image_cache[n] = disk[<<resource, n>>].blob
            /\ \A n \in preload[resource].stored : SmallRegularFile(resource, n)

----------------------------------------------------------------------------
(* Claims on the locks of SpecCache *)

\* the step a caller takes while it holds its lock
CriticalStep(c) ==
    \/ PickIndex(c)
    \/ FetchElement(c)
    \/ ReadCount(c)
    \/ ReplaceList(c)
    \/ LookupImage(c)
    \/ InsertImage(c)

Holds(c, l) == locks[l].writer = c \/ c \in locks[l].readers

\* a writer holds the lock of the list or is queued for it (parking_lot's
\* RwLock may make a new reader wait behind a queued writer)
WriterAt(l) ==
    \/ locks[l].writer # None
    \/ \E d \in Clients :
          /\ clients[d].stage = "wait"
          /\ clients[d].target = l
          /\ clients[d].op \notin ReadOps

\* C28: the five locks are independent.  A caller waiting to read a list
\* (or the image map) can take its lock whenever no writer holds or awaits
\* the lock of that same list, whoever holds the other four locks and however
\* many readers already hold this one; a caller waiting to write can take its
\* lock whenever nobody holds the lock of that same list; a caller holding a
\* lock never waits for another; and every caller holds at most the lock of
\* the list its operation names.  So an update_files(Gary, _) in progress
\* delays no get_random_file(Goober), get_random_quote, get_random_joke or
\* get_image.
C28_ListsLockIndependently ==
    /\ \A c \in Clients, l \in LockNames :
          Holds(c, l) =>
              /\ clients[c].stage \in {"locked", "indexed"}
              /\ clients[c].target = l
    /\ \A l \in LockNames : locks[l].writer # None => locks[l].readers = {}
    /\ NoneReturning =>
          \A c \in Clients :
              LET cl == clients[c] IN
              /\ (cl.stage = "wait" /\ cl.op \in ReadOps
                     /\ ~WriterAt(cl.target)) => ENABLED AcquireRead(c)
              /\ (cl.stage = "wait" /\ cl.op \in UpdateOps \cup {"store_image"}
                     /\ locks[cl.target].writer = None
                     /\ locks[cl.target].readers = {}) => ENABLED AcquireWrite(c)
              /\ cl.stage \in {"locked", "indexed"} => ENABLED CriticalStep(c)

\* C28 witness: a get_random_file(Goober) holds its read lock and has
\* sampled an index while an update_files(Gary, _) holds the write lock of
\* the Gary list.
C28_Witness ==
    \E c \in Clients, d \in Clients :
        /\ clients[c].op = "update_files"
        /\ locks["gary_files"].writer = c
        /\ clients[d].op = "get_random_file"
        /\ clients[d].target = "goober_files"
        /\ clients[d].stage = "indexed"
        /\ d \in locks["goober_files"].readers

----------------------------------------------------------------------------
(* Claims on the two resource kinds in SpecCache *)

FileOps == {"get_random_file", "file_count", "update_files"}

OtherList(l) == IF l = "gary_files" THEN "goober_files" ELSE "gary_files"

\* a step in which an update_files call replaces its list
UpdateFilesStep(c) ==
    /\ clients[c].op = "update_files"
    /\ clients[c].stage = "locked"
    /\ clients'[c].stage = "done"

\* C29: the cache treats Gary and Goober alike.  A second cache that
\* receives the same calls, interleaved in the same way and drawing the same
\* random indices, with Gary and Goober exchanged in every kind argument,
\* returns the same results and is always in the state of the first with the
\* two file lists exchanged; and update_files(k, _) changes the list of k
\* only: the other kind's list, the quotes, the jokes and the image map stay
\* as they are.
C29_KindsAreSymmetric ==
    /\ [](/\ written["mirror_gary_files"] = goober_files
          /\ written["mirror_goober_files"] = gary_files
          /\ \A c \in Clients :
                (clients[c].stage = "done" /\ clients[c].op \in ReadOps \ {"get_image"}) =>
                    clients[c].mresult = clients[c].result)
    /\ [][\A c \in Clients :
            UpdateFilesStep(c) =>
                /\ ListOf(clients[c].target)' = clients[c].arg
                /\ ListOf(OtherList(clients[c].target))' = ListOf(OtherList(clients[c].target))
                /\ UNCHANGED <<quotes, jokes, image_cache>>]_vars

\* C29 witness: after updates of both kinds with different lists, a
\* get_random_file(Gary) returned the second element of the Gary list, as
\* get_random_file(Goober) does in the cache with the kinds exchanged.
C29_Witness ==
    \E c \in Clients :
        /\ clients[c].stage = "done"
        /\ clients[c].op = "get_random_file"
        /\ clients[c].target = "gary_files"
        /\ clients[c].mlock = "goober_files"
        /\ gary_files = <<NameB, NameA>>
        /\ goober_files = <<NameA>>
        /\ clients[c].result = Some(NameA)
        /\ clients[c].mresult = Some(NameA)

\* ---------------------------------------------------------------------
\* Claims on the termination of requests in SpecLive
\* ---------------------------------------------------------------------

\* the task the accept loop hands the next connection to
NextTask(t) ==
    /\ tasks[t].pc = "idle"
    /\ \A u \in TaskIds : u < t => tasks[u].pc # "idle"

\* the step of Spec that dispatches request req on task t
Dispatches(t, req) == AcceptRequest(t, req) /\ ServerOnly

\* the responses dispatch can return
Answered(response) == response # NoResp /\ response.status \in {200, 404}

\* C30: every request is answered.  While the server is serving, every
\* request (any method, any path) can be dispatched in every state of the
\* cache and the disk; a request that completes has an HTTP response; a
\* request whose disk read succeeded is answered with the bytes read, whether
\* or not they were stored and whether or not another request stored the key
\* in the meantime; and, under the scheduling of SpecLive, a request
\* suspended on its disk read is eventually completed, whatever the read
\* answers.
C30_EveryRequestIsAnswered ==
    /\ [](\A t \in TaskIds : \A req \in Requests :
            (phase = "serving" /\ last = NoLast /\ NextTask(t)) =>
                ENABLED Dispatches(t, req))
    /\ [](last # NoLast => Answered(last.response))
    /\ [](last.kind = "read_ok" =>
            /\ last.result.variant = "Ok"
            /\ last.response = fast_image(last.bytes[1], last.filename))
    /\ \A t \in TaskIds : (tasks[t].pc = "reading") ~> (tasks[t].pc = "idle")

\* a request whose read failed is completed while another request is still
\* suspended on its own read
C30_Witness ==
    /\ last.kind = "read_err"
    /\ Answered(last.response)
    /\ tasks[1].pc = "idle"
    /\ tasks[2].pc = "reading"

----------------------------------------------------------------------------
(* Claims on FileName::extension in SpecTypes *)

\* the positions (from 1) of the character c in s
PositionsOf(s, c) == {i \in 1..Len(s) : s[i] = c}

\* s has no '.', or its last '.' is its first or its last character
NoExtensionCase(s) ==
    \/ PositionsOf(s, ".") = {}
    \/ \A i \in PositionsOf(s, ".") : i = 1
    \/ Len(s) \in PositionsOf(s, ".")

\* C31: FileName::extension can be called on every name, the empty one
\* included, and returns; it returns none exactly when the name has no '.',
\* or the last '.' is the first character, or the last '.' is the last
\* character; otherwise it returns the text after the last '.': a text
\* without '.' that, put after some prefix and a '.', gives the name.
C31_ExtensionAfterLastDot ==
    /\ (tresult = NoneOpt /\ tcall.fn = "FileName::extension") => ENABLED CallExtension
    /\ (tresult # NoneOpt /\ tcall.fn = "FileName::extension") =>
          /\ tresult[1] = NoneOpt <=> NoExtensionCase(tcall.raw)
          /\ tresult[1] # NoneOpt =>
                /\ PositionsOf(tresult[1][1], ".") = {}
                /\ \E k \in 1..Len(tcall.raw) :
                      tcall.raw = SubSeq(tcall.raw, 1, k - 1) \o <<".">> \o tresult[1][1]

\* C31 witness: the extension of "..a" is "a": the last '.' counts, not the
\* first.
C31_Witness ==
    /\ tcall = [fn |-> "FileName::extension", raw |-> <<".", ".", "a">>]
    /\ tresult = Some(Some(<<"a">>))

----------------------------------------------------------------------------
(* Claims on DirectoryPath::join in SpecTypes *)

\* C32: DirectoryPath::join(d, f) is d, then one '/', then f: its length is
\* the two lengths and one, its first Len(d) characters are d unchanged, the
\* next is '/', and the rest is f unchanged, also when d ends with '/' or is
\* empty and when f is empty, ".", ".." or starts with '/'.
C32_JoinIsDirSlashName ==
    (tresult # NoneOpt /\ tcall.fn = "DirectoryPath::join") =>
        LET joined == tresult[1]
            d == tcall.dir
            f == tcall.raw
        IN  /\ Len(joined) = Len(d) + 1 + Len(f)
            /\ SubSeq(joined, 1, Len(d)) = d
            /\ joined[Len(d) + 1] = "/"
            /\ SubSeq(joined, Len(d) + 2, Len(joined)) = f

\* C32 witness: joining "d/" and "/.." gives "d///..": nothing is normalized.
C32_Witness ==
    /\ tcall.fn = "DirectoryPath::join"
    /\ tcall.dir = <<"d", "/">>
    /\ tcall.raw = <<"/", ".", ".">>
    /\ tresult = Some(<<"d", "/", "/", "/", ".", ".">>)

----------------------------------------------------------------------------
(* Claims on ServerMetrics in SpecMetrics *)

\* C33: request_count is the number of increment_requests calls that have
\* returned, whatever the interleaving of the request tasks and of a reader;
\* no step lowers it; and average_response_time, when it reads a
\* request_count of 0, returns 0 without a division, and divides otherwise.
C33_NoIncrementIsLost ==
    /\ [](metrics.request_count = mdone)
    /\ [][metrics'.request_count >= metrics.request_count]_vars
    /\ [][(mreader.pc = "loaded" /\ mreader'.pc = "idle") =>
            IF metrics.request_count = 0
            THEN mreader'.result = Some(NoAverage)
            ELSE mreader'.result[1].divided /\ mreader'.result[1].count > 0]_vars

\* C33 witness: both tasks have incremented and are handling their requests
\* at once, one request was served before, and the reader has returned 0.0
\* for a count of 0 earlier on.
C33_Witness ==
    /\ \A t \in MetricTasks : mtasks[t].pc = "handling"
    /\ metrics.request_count = 3
    /\ mreader.result = Some(NoAverage)

----------------------------------------------------------------------------
(* Claims on the directory an image of Spec comes from *)

\* the requests that serve an image
ImageServed == last.kind \in {"hit", "read_ok"}

\* C34: the bytes served for an image request of a kind are the content of a
\* file of the directory configured for that kind (the files of the two
\* directories never have the same content here).
C34_BytesComeFromOwnDirectory ==
    ImageServed => last.response.blob \in DiskBlobs(KindOf(last.route))

----------------------------------------------------------------------------
(* Claims on the paths Spec reads from disk *)

\* the part of a path after its last '/'
LastSegment(path) ==
    LET slashes == PositionsOf(path, "/")
        from == IF slashes = {} THEN 0 ELSE CHOOSE i \in slashes : \A j \in slashes : j <= i
    IN  SubSeq(path, from + 1, Len(path))

\* C35: no request makes a disk read of a path whose last segment is "." or
\* "..".
C35_NoReadOfDotSegments ==
    last.reads > 0 => LastSegment(last.read_path) \notin {<<".">>, <<".", ".">>}

----------------------------------------------------------------------------
(* Claims on what request handling changes in Spec *)

\* the image map after the step differs from the one before only at key
OnlyKeyWritten(key) ==
    /\ DOMAIN image_cache' = DOMAIN image_cache \cup {key}
    /\ \A k \in DOMAIN image_cache : k # key => image_cache'[k] = image_cache[k]

\* C36: while the server is serving, no step changes the two file lists, the
\* quotes or the jokes; a step changes the image map only by completing an
\* image request that missed the cache and whose disk read succeeded with
\* content below 1 MiB, and then only at the key equal to the file name of
\* that request, which gets the content read.
C36_OnlyReadThroughWrites ==
    [][phase = "serving" =>
         /\ UNCHANGED <<gary_files, goober_files, quotes, jokes>>
         /\ image_cache' # image_cache =>
               /\ last'.kind = "read_ok"
               /\ last'.route.tag \in ImageRoutes
               /\ last'.cached = NoneOpt
               /\ last'.bytes[1].len < Threshold
               /\ OnlyKeyWritten(CacheKey_from(last'.filename))
               /\ image_cache'[CacheKey_from(last'.filename)] = last'.bytes[1]]_vars

\* C36 witness: a request for /Goober/a missed an empty image cache, read the
\* file, and the cache now holds exactly that key while the lists are those
\* start-up published.
C36_Witness ==
    /\ last.kind = "read_ok"
    /\ last.route = Route("GooberFile", NameA)
    /\ last.cacheBefore = EmptyMap
    /\ DOMAIN image_cache = {NameA}
    /\ image_cache[NameA] = last.bytes[1]
    /\ goober_files = loaded["goober_dir"][1]

----------------------------------------------------------------------------
(* Claims on deadlock in SpecCache *)

LocksHeldBy(c) == {l \in LockNames : Holds(c, l)}

\* a caller is inside a cache operation
Inside(c) == clients[c].stage \in {"wait", "locked", "indexed"}

\* a caller inside an operation takes a step
OperationStep == \E c \in Clients : AcquireRead(c) \/ AcquireWrite(c) \/ CriticalStep(c)

\* C37: the locks cannot deadlock.  A caller holds no lock before it has
\* acquired the one lock of its operation, exactly that lock while it is in
\* its critical section, and none once the operation has completed: so no
\* caller ever holds two locks, and a caller that is between two cache
\* operations, as a request suspended on its disk read is, holds none.
\* Whenever some caller is inside an operation, some caller inside an
\* operation can take a step.
C37_LocksCannotDeadlock ==
    /\ \A c \in Clients :
          /\ Cardinality(LocksHeldBy(c)) <= 1
          /\ clients[c].stage \in {"idle", "wait", "done"} => LocksHeldBy(c) = {}
          /\ clients[c].stage \in {"locked", "indexed"} => LocksHeldBy(c) = {clients[c].lock}
    /\ (NoneReturning /\ \E c \in Clients : Inside(c)) => ENABLED OperationStep

\* C37 witness: a store_image holds the write lock of the image map while a
\* get_image of the other caller waits for it; the other four locks are free.
C37_Witness ==
    /\ clients["c1"].op = "store_image"
    /\ clients["c1"].stage = "locked"
    /\ locks["image_cache"].writer = "c1"
    /\ clients["c2"].op = "get_image"
    /\ clients["c2"].stage = "wait"
    /\ \A l \in LockNames \ {"image_cache"} : locks[l] = FreeLocks[l]

----------------------------------------------------------------------------
(* Claims on the methods Spec answers *)

\* the step completes a request whose method is not GET
CompletesOtherMethod == last = NoLast /\ last' # NoLast /\ last'.method # "GET"

\* C38: a request whose method is not GET gets the 404 "Not Found" response
\* whatever its path; its path is not routed, no image is looked up, no disk
\* read is made, and the step that answers it changes neither the cache nor
\* the disk nor any suspended request.
C38_OtherMethodsAreNotFound ==
    /\ []((last # NoLast /\ last.method # "GET") =>
            /\ last.response.status = 404
            /\ last.response.tag = "Not Found"
            /\ last.response.blob = NoBlob
            /\ last.route = NoRoute
            /\ last.cached = NoneOpt
            /\ last.reads = 0)
    /\ [][CompletesOtherMethod => UNCHANGED <<cacheVars, disk, tasks>>]_vars

\* C38 witness: POST /Gary/a is answered 404 while the image cache holds the
\* key a, which a GET of the same path would have been served from.
C38_Witness ==
    /\ last.method = "POST"
    /\ last.path = P_Gary \o NameA
    /\ last.response.status = 404
    /\ NameA \in DOMAIN image_cache

----------------------------------------------------------------------------
(* Claims on SpecHandlers *)

\* a step in which a call of handle_request returns without an await, and a
\* step in which the call made by task t is suspended on its disk read
ReturnsAtOnce == last = NoLast /\ last' # NoLast /\ last'.reads = 0
Suspends(t) == tasks[t].pc = "idle" /\ tasks'[t].pc = "reading"

\* C39: for every route, UrlHandler, ImageHandler and TextHandler report
\* can_handle true exactly when the route satisfies is_url_route,
\* is_image_route and is_text_route respectively, and no route satisfies two
\* of the three predicates; the result of a handler's handle_request is
\* InvalidRoute exactly when the handler cannot handle the route of the
\* request, and for a route it can handle the call is the call of
\* handle_route on that route, whose result it returns.
C39_HandlersAgreeWithPredicates ==
    /\ [](last # NoLast =>
            LET route == from_path(last.path) IN
            /\ can_handle("UrlHandler", route) <=> is_url_route(route)
            /\ can_handle("ImageHandler", route) <=> is_image_route(route)
            /\ can_handle("TextHandler", route) <=> is_text_route(route)
            /\ ~(is_url_route(route) /\ is_image_route(route))
            /\ ~(is_url_route(route) /\ is_text_route(route))
            /\ ~(is_image_route(route) /\ is_text_route(route))
            /\ last.handler \in Handlers
            /\ (last.result = ErrResult("InvalidRoute")) <=> ~can_handle(last.handler, route))
    /\ [][/\ ReturnsAtOnce =>
               LET route == from_path(last'.path) IN
               IF can_handle(last'.handler, route)
               THEN \E t \in TaskIds :
                       handle_route(t, last'.handler, last'.method, last'.path, route)
               ELSE last'.result = ErrResult("InvalidRoute") /\ UNCHANGED tasks
           /\ \A t \in TaskIds : Suspends(t) =>
               LET call == tasks'[t]
                   parsed == from_path(call.path)
               IN  /\ can_handle(call.handler, parsed)
                   /\ handle_route(t, call.handler, call.method, call.path, parsed)]_vars

\* C39 witness: ImageHandler was called on /Gary/a, which it can handle, the
\* file could not be read, and the result is the FileError of handle_route,
\* not InvalidRoute.
C39_Witness ==
    /\ last.handler = "ImageHandler"
    /\ last.path = P_Gary \o NameA
    /\ can_handle("ImageHandler", from_path(last.path))
    /\ last.kind = "read_err"
    /\ last.result = file_error_result

====
